---- MODULE Spec2Model ----
(***************************************************************************)
(* Model of the zkwasm-dapp CLI's deployment readiness check               *)
(* (cli/check-deployment.ts) and of the `check` command that drives it.    *)
(*                                                                         *)
(* A JavaScript string is a sequence of text fragments (the parts of a     *)
(* template literal, or single characters for a hex digest); the empty     *)
(* string is << >>.  A JavaScript object with optional fields is a         *)
(* function whose DOMAIN is the set of the fields that are set.            *)
(* The filesystem is a snapshot that does not change during a run.         *)
(***************************************************************************)
EXTENDS Integers, Sequences, FiniteSets, TLC

\* ---------------------------------------------------------------- bounds
\* Longest artifact content, in bytes.
MaxLen == 2
\* Longest result list the catalog answers with.
MaxImages == 2
\* Number of runs of the check command over the same working directory.
MaxRuns == 2

\* ------------------------------------------------- crypto: MD5 (RFC 1321)
\* A 32-bit word is a pair <<high 16 bits, low 16 bits>>.
HalfWord == 65536

RECURSIVE BitMix(_, _, _, _, _)
\* Bitwise combination of n-bit b, c, d by the round function of round r:
\* r=0: F = (b & c) | (~b & d)   r=1: G = (b & d) | (c & ~d)
\* r=2: H = b ^ c ^ d            r=3: I = c ^ (b | ~d)
BitMix(r, b, c, d, n) ==
    IF n = 0 THEN 0
    ELSE LET x == b % 2
             y == c % 2
             z == d % 2
             bit == CASE r = 0 -> IF x = 1 THEN y ELSE z
                      [] r = 1 -> IF z = 1 THEN x ELSE y
                      [] r = 2 -> (x + y + z) % 2
                      [] OTHER -> (y + (IF x = 1 \/ z = 0 THEN 1 ELSE 0)) % 2
         IN  bit + 2 * BitMix(r, b \div 2, c \div 2, d \div 2, n - 1)

WordMix(r, b, c, d) ==
    << BitMix(r, b[1], c[1], d[1], 16), BitMix(r, b[2], c[2], d[2], 16) >>

\* Addition modulo 2^32.
WordAdd(a, b) ==
    LET lo == a[2] + b[2]
        hi == a[1] + b[1] + (lo \div HalfWord)
    IN  << hi % HalfWord, lo % HalfWord >>

\* Rotation to the left by s bits, 0 < s < 32.
RotL(w, s) ==
    LET v == IF s >= 16 THEN << w[2], w[1] >> ELSE w
        t == IF s >= 16 THEN s - 16 ELSE s
        up == 2^t
        down == 2^(16 - t)
    IN  IF t = 0 THEN v
        ELSE << ((v[1] * up) % HalfWord) + (v[2] \div down),
                ((v[2] * up) % HalfWord) + (v[1] \div down) >>

MD5_K ==
    << <<55146, 42104>>, <<59591, 46934>>, <<9248, 28891>>, <<49597, 52974>>,
       <<62844, 4015>>, <<18311, 50730>>, <<43056, 17939>>, <<64838, 38145>>,
       <<27008, 39128>>, <<35652, 63407>>, <<65535, 23473>>, <<35164, 55230>>,
       <<27536, 4386>>, <<64920, 29075>>, <<42617, 17294>>, <<18868, 2081>>,
       <<63006, 9570>>, <<49216, 45888>>, <<9822, 23121>>, <<59830, 51114>>,
       <<54831, 4189>>, <<580, 5203>>, <<55457, 59009>>, <<59347, 64456>>,
       <<8673, 52710>>, <<49975, 2006>>, <<62677, 3463>>, <<17754, 5357>>,
       <<43491, 59653>>, <<64751, 41976>>, <<26479, 729>>, <<36138, 19594>>,
       <<65530, 14658>>, <<34673, 63105>>, <<28061, 24866>>, <<64997, 14348>>,
       <<42174, 59972>>, <<19422, 53161>>, <<63163, 19296>>, <<48831, 48240>>,
       <<10395, 32454>>, <<60065, 10234>>, <<54511, 12421>>, <<1160, 7429>>,
       <<55764, 53305>>, <<59099, 39397>>, <<8098, 31992>>, <<50348, 22117>>,
       <<62505, 8772>>, <<17194, 65431>>, <<43924, 9127>>, <<64659, 41017>>,
       <<25947, 22979>>, <<36620, 52370>>, <<65519, 62589>>, <<34180, 24017>>,
       <<28584, 32335>>, <<65068, 59104>>, <<41729, 17172>>, <<19976, 4513>>,
       <<63315, 32386>>, <<48442, 62005>>, <<10967, 53947>>, <<60294, 54161>> >>

MD5_S ==
    << <<7, 12, 17, 22>>, <<5, 9, 14, 20>>, <<4, 11, 16, 23>>, <<6, 10, 15, 21>> >>

MD5_Init ==
    << <<26437, 8961>>, <<61389, 43913>>, <<39098, 56574>>, <<4146, 21622>> >>

\* Index of the message word used by step i (0-based) of a block.
MD5_G(i) ==
    CASE i < 16 -> i
      [] i < 32 -> (5 * i + 1) % 16
      [] i < 48 -> (3 * i + 5) % 16
      [] OTHER  -> (7 * i) % 16

RECURSIVE ZeroBytes(_)
ZeroBytes(n) == IF n = 0 THEN << >> ELSE << 0 >> \o ZeroBytes(n - 1)

\* The message followed by 0x80, zeros up to 56 mod 64, and the bit length
\* as a 64-bit little-endian number (lengths here stay far below 2^16 bits).
MD5_Pad(bytes) ==
    LET n == Len(bytes)
        z == (55 - n) % 64
        bits == 8 * n
    IN  bytes \o << 128 >> \o ZeroBytes(z)
          \o << bits % 256, (bits \div 256) % 256 >> \o ZeroBytes(6)

\* Little-endian word j (0-based) of the block that starts at byte `base`.
MD5_Word(padded, base, j) ==
    LET o == base + 4 * j
    IN  << padded[o + 3] + 256 * padded[o + 4],
           padded[o + 1] + 256 * padded[o + 2] >>

RECURSIVE MD5_Steps(_, _, _, _)
\* Steps i..63 of one block applied to the state st = <<A, B, C, D>> (the
\* length test has st evaluated before the next step is entered).
MD5_Steps(st, padded, base, i) ==
    IF i = 64 \/ Len(st) # 4 THEN st
    ELSE LET r == i \div 16
             f == WordMix(r, st[2], st[3], st[4])
             sum == WordAdd(WordAdd(st[1], f),
                            WordAdd(MD5_K[i + 1], MD5_Word(padded, base, MD5_G(i))))
             nb == WordAdd(st[2], RotL(sum, MD5_S[r + 1][(i % 4) + 1]))
         IN  MD5_Steps(<< st[4], nb, st[2], st[3] >>, padded, base, i + 1)

RECURSIVE MD5_Blocks(_, _, _)
MD5_Blocks(st, padded, base) ==
    IF base >= Len(padded) THEN st
    ELSE LET out == MD5_Steps(st, padded, base, 0)
         IN  MD5_Blocks(<< WordAdd(st[1], out[1]), WordAdd(st[2], out[2]),
                           WordAdd(st[3], out[3]), WordAdd(st[4], out[4]) >>,
                        padded, base + 64)

\* The 16 digest bytes: A, B, C, D, each little-endian.
MD5_Digest(bytes) ==
    LET st == MD5_Blocks(MD5_Init, MD5_Pad(bytes), 0)
        WordBytes(w) == << w[2] % 256, w[2] \div 256, w[1] % 256, w[1] \div 256 >>
    IN  WordBytes(st[1]) \o WordBytes(st[2]) \o WordBytes(st[3]) \o WordBytes(st[4])

\* ------------------------------------------------------- string rendering
HexLower == << "0", "1", "2", "3", "4", "5", "6", "7",
               "8", "9", "a", "b", "c", "d", "e", "f" >>

RECURSIVE HexEncode(_)
\* digest('hex'): two lowercase hexadecimal characters per byte.
HexEncode(bytes) ==
    IF bytes = << >> THEN << >>
    ELSE << HexLower[(Head(bytes) \div 16) + 1], HexLower[(Head(bytes) % 16) + 1] >>
           \o HexEncode(Tail(bytes))

\* String.prototype.toUpperCase on one character of a hex string.
UpperChar(c) ==
    CASE c = "a" -> "A" [] c = "b" -> "B" [] c = "c" -> "C"
      [] c = "d" -> "D" [] c = "e" -> "E" [] c = "f" -> "F"
      [] OTHER -> c

\* Mutant of ToUpperCase: the digest is left as digest('hex') renders it.
ToUpperCase_Skipped(s) == s

ToUpperCase(s) == [i \in 1..Len(s) |-> UpperChar(s[i])]

DecDigits == << "0", "1", "2", "3", "4", "5", "6", "7", "8", "9" >>

RECURSIVE DecStr(_)
\* Decimal rendering of a natural number, as String(n) and `${n}` give it.
DecStr(n) ==
    IF n < 10 THEN << DecDigits[n + 1] >>
    ELSE DecStr(n \div 10) \o << DecDigits[(n % 10) + 1] >>

\* Decimal rendering of an integer.
NumStr(n) == IF n < 0 THEN << "-" >> \o DecStr(0 - n) ELSE DecStr(n)

\* (n / 1024).toFixed(2): n / 1024 is exact in binary floating point, so the
\* result is the nearest multiple of 0.01, the larger one on a tie.
KiloBytes(n) ==
    LET q == (200 * n + 1024) \div 2048
    IN  DecStr(q \div 100)
          \o << ".", DecDigits[((q \div 10) % 10) + 1], DecDigits[(q % 10) + 1] >>

\* ------------------------------------------------------------ JavaScript
\* A value read out of parsed JSON: undefined, a string or a number.
JsUndefined == [t |-> "undefined", s |-> << >>, n |-> 0]
JsString(str) == [t |-> "string", s |-> str, n |-> 0]
JsNumber(num) == [t |-> "number", s |-> << >>, n |-> num]

\* ToBoolean: undefined, "" and 0 are falsy.
Truthy(v) ==
    CASE v.t = "string" -> v.s # << >>
      [] v.t = "number" -> v.n # 0
      [] OTHER -> FALSE

\* String(v).
String(v) ==
    CASE v.t = "string" -> v.s
      [] v.t = "number" -> DecStr(v.n)
      [] OTHER -> << "undefined" >>

\* obj.field of an object with optional fields.
Has(obj, field) == field \in DOMAIN obj

\* obj.field = value.
Put(obj, field, value) ==
    [k \in DOMAIN obj \cup {field} |-> IF k = field THEN value ELSE obj[k]]

\* ------------------------------------------------------------------ paths
\* A path is the sequence of its segments.
RECURSIVE Normalize(_)
\* path.join's normalisation: "." segments are dropped.
Normalize(p) ==
    IF p = << >> THEN << >>
    ELSE IF Head(p) = "." THEN Normalize(Tail(p))
         ELSE << Head(p) >> \o Normalize(Tail(p))

PathJoin(a, b) == Normalize(a \o b)

RECURSIVE PathStr(_)
\* The path as text: its segments separated by "/".
PathStr(p) ==
    IF Len(p) <= 1 THEN p
    ELSE << Head(p), "/" >> \o PathStr(Tail(p))

artifactsDir == << ".", "build-artifacts" >>
applicationDir == PathJoin(artifactsDir, << "application" >>)
requiredFiles == << "application_bg.wasm", "application_bg.wasm.d.ts" >>
wasmPath == << ".", "build-artifacts", "application", "application_bg.wasm" >>
endpoint == "https://rpc.zkwasmhub.com:8090"

\* ------------------------------------------------------------- filesystem
\* A snapshot maps each existing path to its kind: "dir", "file" (readable)
\* or "denied" (a file the process may not read).
Bytes == {0, 1, 2}

Contents == UNION {[1..n -> Bytes] : n \in 0..MaxLen}

WasmKinds == {"file", "dir", "denied"}

DirsOnly(hasApp) ==
    IF hasApp
    THEN (<< "build-artifacts" >> :> "dir")
           @@ (<< "build-artifacts", "application" >> :> "dir")
    ELSE (<< "build-artifacts" >> :> "dir")

WithWasm(entries, kind) ==
    entries @@ (<< "build-artifacts", "application", "application_bg.wasm" >> :> kind)

WithDts(entries) ==
    entries @@ (<< "build-artifacts", "application", "application_bg.wasm.d.ts" >> :> "file")

TreeShapes ==
    LET base == DirsOnly(TRUE)
        wasms == {base} \cup {WithWasm(base, k) : k \in WasmKinds}
    IN  {<< >>, DirsOnly(FALSE)} \cup wasms \cup {WithDts(e) : e \in wasms}

\* The working directories a run can find: content matters for a regular
\* artifact file only. `faulty` holds the paths whose fs.stat rejects although
\* the existence probe has answered true; a stable directory has none.
Snapshots ==
    {f \in [entries : TreeShapes, content : Contents, faulty : {{}}] :
        \/ f.content = << >>
        \/ /\ Normalize(wasmPath) \in DOMAIN f.entries
           /\ f.entries[Normalize(wasmPath)] = "file"}

\* The required files of a snapshot that exist, as normalised paths.
StatTargets(f) ==
    {PathJoin(applicationDir, << requiredFiles[i] >>) : i \in 1..Len(requiredFiles)}
        \cap DOMAIN f.entries

\* The working directories in which an entry can change between the existence
\* probe and the stat call (removed, or its directory made unsearchable), so
\* that fs.stat rejects for it.
FaultySnapshots ==
    UNION {{[f EXCEPT !.faulty = s] : s \in SUBSET StatTargets(f)} : f \in Snapshots}

\* crypto.createHash('md5').update(buffer).digest('hex') for every content
\* a snapshot can hold, computed once.
Md5HexTable == [c \in Contents |-> HexEncode(MD5_Digest(c))]

Md5Hex(buffer) ==
    IF buffer \in DOMAIN Md5HexTable THEN Md5HexTable[buffer]
    ELSE HexEncode(MD5_Digest(buffer))

\* fs.pathExists: whether the path can be accessed; it never throws.
PathExists(f, p) == Normalize(p) \in DOMAIN f.entries

\* fs.stat(p) rejects.
StatThrows(f, p) == Normalize(p) \in f.faulty

\* The message of the error fs.stat rejects with.
StatError(p) == << "ENOENT: no such file or directory, stat '" >> \o PathStr(p) \o << "'" >>

\* fs.stat(p).size of an existing path: the artifact's byte length; the
\* snapshot keeps no content for other entries (0 bytes, 4096 for a directory).
StatSize(f, p) ==
    LET kind == f.entries[Normalize(p)]
    IN  CASE kind = "dir" -> 4096
          [] kind = "file" /\ Normalize(p) = Normalize(wasmPath) -> Len(f.content)
          [] OTHER -> 0

\* fs.readFile: the bytes, or the error it throws.
ReadFile(f, p) ==
    LET kind == f.entries[Normalize(p)]
    IN  CASE kind = "file" ->
               [ok |-> TRUE, buffer |-> f.content, message |-> << >>]
          [] kind = "dir" ->
               [ok |-> FALSE, buffer |-> << >>,
                message |-> << "EISDIR: illegal operation on a directory, read" >>]
          [] OTHER ->
               [ok |-> FALSE, buffer |-> << >>,
                message |-> << "EACCES: permission denied, open '" >>
                              \o PathStr(p) \o << "'" >>]

\* ---------------------------------------------------------------- catalog
\* What the remote catalog can answer to one request.
Checksums ==
    {JsUndefined, JsString(<< >>), JsString(<< "abc" >>), JsNumber(7)}

NullImage == [isNull |-> TRUE, checksum |-> JsUndefined]

\* An element of the result list: JSON null or a record with a checksum.
Images ==
    {NullImage} \cup {[isNull |-> FALSE, checksum |-> c] : c \in Checksums}

ImageLists == UNION {[1..n -> Images] : n \in 0..MaxImages}

\* response_data.result: absent, not a list, or a list of images.
ResultKinds == {"undefined", "string", "array"}

NoBody == [isNull |-> FALSE, result |-> "undefined", images |-> << >>]

Bodies ==
    {[isNull |-> TRUE, result |-> "undefined", images |-> << >>]}
      \cup {[isNull |-> FALSE, result |-> k, images |-> << >>] :
               k \in ResultKinds \ {"array"}}
      \cup {[isNull |-> FALSE, result |-> "array", images |-> l] : l \in ImageLists}

Statuses == {200, 404, 500}

StatusText(status) ==
    CASE status = 200 -> "OK"
      [] status = 404 -> "Not Found"
      [] OTHER -> "Internal Server Error"

\* fetch rejects; or it resolves with a status and a body that response.json()
\* parses or fails to parse.
Outcomes ==
    {[fetch |-> "rejects", status |-> 0, json |-> "throws", body |-> NoBody]}
      \cup {[fetch |-> "resolves", status |-> st, json |-> "throws", body |-> NoBody] :
               st \in Statuses}
      \cup {[fetch |-> "resolves", status |-> 200, json |-> "parses", body |-> b] :
               b \in Bodies}

\* response.ok
ResponseOk(status) == status >= 200 /\ status <= 299

\* Mutant of queryZkWasmImage: the last image of the list is returned.
queryZkWasmImage_LastImage(o) ==
    LET Throw(msg) ==
            [threw |-> TRUE, found |-> FALSE, image |-> NullImage,
             message |-> << "Failed to query zkWasm hub: " >> \o msg]
    IN  CASE o.fetch = "rejects" -> Throw(<< "fetch failed" >>)
          [] ~ResponseOk(o.status) ->
               Throw(<< "HTTP " >> \o DecStr(o.status)
                        \o << ": ", StatusText(o.status) >>)
          [] o.json = "throws" ->
               Throw(<< "Unexpected token < in JSON at position 0" >>)
          [] o.body.isNull ->
               Throw(<< "Cannot read properties of null (reading 'result')" >>)
          [] o.body.result = "array" /\ Len(o.body.images) > 0 ->
               [threw |-> FALSE, found |-> TRUE,
                image |-> o.body.images[Len(o.body.images)], message |-> << >>]
          [] OTHER ->
               [threw |-> FALSE, found |-> FALSE, image |-> NullImage, message |-> << >>]

\* Mutant of queryZkWasmImage: the list is searched for the first record
\* that carries a checksum.
queryZkWasmImage_FirstWithChecksum(o) ==
    LET Throw(msg) ==
            [threw |-> TRUE, found |-> FALSE, image |-> NullImage,
             message |-> << "Failed to query zkWasm hub: " >> \o msg]
        images == o.body.images
        WithChecksum == {i \in 1..Len(images) :
                            ~images[i].isNull /\ Truthy(images[i].checksum)}
        first == IF WithChecksum = {} THEN 1
                 ELSE CHOOSE i \in WithChecksum : \A j \in WithChecksum : i <= j
    IN  CASE o.fetch = "rejects" -> Throw(<< "fetch failed" >>)
          [] ~ResponseOk(o.status) ->
               Throw(<< "HTTP " >> \o DecStr(o.status)
                        \o << ": ", StatusText(o.status) >>)
          [] o.json = "throws" ->
               Throw(<< "Unexpected token < in JSON at position 0" >>)
          [] o.body.isNull ->
               Throw(<< "Cannot read properties of null (reading 'result')" >>)
          [] o.body.result = "array" /\ Len(images) > 0 ->
               [threw |-> FALSE, found |-> TRUE,
                image |-> images[first], message |-> << >>]
          [] OTHER ->
               [threw |-> FALSE, found |-> FALSE, image |-> NullImage, message |-> << >>]

\* queryZkWasmImage once fetch has settled with outcome o: the first image,
\* null, or the error it throws.
queryZkWasmImage(o) ==
    LET Throw(msg) ==
            [threw |-> TRUE, found |-> FALSE, image |-> NullImage,
             message |-> << "Failed to query zkWasm hub: " >> \o msg]
        Return(found, img) ==
            [threw |-> FALSE, found |-> found, image |-> img, message |-> << >>]
    IN  CASE o.fetch = "rejects" -> Throw(<< "fetch failed" >>)
          [] ~ResponseOk(o.status) ->
               Throw(<< "HTTP " >> \o DecStr(o.status)
                        \o << ": ", StatusText(o.status) >>)
          [] o.json = "throws" ->
               Throw(<< "Unexpected token < in JSON at position 0" >>)
          [] o.body.isNull ->
               Throw(<< "Cannot read properties of null (reading 'result')" >>)
          [] o.body.result = "array" /\ Len(o.body.images) > 0 ->
               Return(TRUE, o.body.images[1])
          [] OTHER -> Return(FALSE, NullImage)

\* ------------------------------------------------------------------ state
VARIABLES
    fs,        \* the working directory's snapshot
    verbose,   \* options.verbose
    pc,        \* where the check command is
    results,   \* the CheckResults report: success, warnings, errors, info
    requests,  \* the network requests issued in this run, in order
    console,   \* the console.log / console.error calls made, by call site
    trace,     \* the stages of checkDeployment entered and left, in order
    pushed,    \* per check, the number of errors it appended in this run
    summary,   \* what the summary printed: << >> before the summary
    exitCode,  \* the exit code of the process: << >> while it runs
    answer,    \* how the catalog request settled: << >> until it has
    rejection, \* the error checkDeployment rejected with: << >> if none
    run,       \* the number of this run of the command
    prev,      \* info.md5Hash and info.wasmSize of the previous run
    creation,      \* the `create` command: << >> when it is not the one run
    validation,    \* the `validate` command
    publishing,    \* the `publish` command
    script,        \* a run of the generated ts/publish.sh
    configuration, \* the `init` command
    building       \* the `build` command

\* The state of the commands other than `check`.
commands == << creation, validation, publishing, script, configuration, building >>

\* The state of the `check` command.
checking == << fs, verbose, pc, results, requests, console, trace, pushed,
               summary, exitCode, answer, rejection, run, prev >>

vars == << checking, commands >>

Checks == {"ArtifactCheck", "IntegrityCheck", "CatalogCheck"}

\* Mutant of Pipeline: the catalog is asked before the digest is computed.
Pipeline_CatalogFirst ==
    << "ArtifactCheck", "CatalogCheck", "IntegrityCheck", "Summarize" >>

\* The order in which checkDeployment awaits its checks and then summarises.
Pipeline == << "ArtifactCheck", "IntegrityCheck", "CatalogCheck", "Summarize" >>

\* The stage that follows `stage`.
NextStage(stage) ==
    Pipeline[(CHOOSE i \in 1..Len(Pipeline) : Pipeline[i] = stage) + 1]

NewResults == [success |-> TRUE, warnings |-> << >>, errors |-> << >>, info |-> << >>]

\* results.errors.push(e) by the check `who`.
PushError(r, e) == [r EXCEPT !.errors = Append(@, e)]

Enter(stage) == << stage, "begin" >>
Leave(stage) == << stage, "end" >>

Init ==
    /\ fs \in Snapshots
    /\ verbose \in BOOLEAN
    /\ pc = "Command"
    /\ results = NewResults
    /\ requests = << >>
    /\ console = << >>
    /\ trace = << >>
    /\ pushed = [c \in Checks |-> 0]
    /\ summary = << >>
    /\ exitCode = << >>
    /\ answer = << >>
    /\ rejection = << >>
    /\ run = 1
    /\ prev = << >>
    /\ creation = << >>
    /\ validation = << >>
    /\ publishing = << >>
    /\ script = << >>
    /\ configuration = << >>
    /\ building = << >>

\* The `check` command's action calls checkDeployment(options), which
\* creates the report and announces the run.
CheckCommand ==
    /\ pc = "Command"
    /\ pc' = Pipeline[1]
    /\ results' = NewResults
    /\ console' = console \o << << "Checking deployment readiness..." >>,
                                << "Starting deployment readiness check...\n" >> >>
    /\ trace' = Append(trace, Enter("Start"))
    /\ UNCHANGED << fs, verbose, requests, pushed, summary, exitCode, answer, rejection, run, prev >>
    /\ UNCHANGED commands

RECURSIVE FileLoop(_, _, _)

\* Mutant of FileLoop: the loop is left at the first missing file.
FileLoop_StopsAtFirst(f, v, i) ==
    IF i > Len(requiredFiles) THEN << << >>, << >>, << >> >>
    ELSE LET file == requiredFiles[i]
             filePath == PathJoin(applicationDir, << file >>)
             rest == FileLoop(f, v, i + 1)
         IN  IF ~PathExists(f, filePath)
             THEN << << << "Required file missing: " >> \o PathStr(filePath) >>,
                     << >>, << >> >>
             ELSE IF v
                  THEN IF StatThrows(f, filePath)
                       THEN << << >>, << >>, StatError(filePath) >>
                       ELSE << rest[1],
                               << << "  ", file, " (" >> \o KiloBytes(StatSize(f, filePath))
                                     \o << " KB)" >> >> \o rest[2],
                               rest[3] >>
                  ELSE rest

\* The loop over requiredFiles from index i on: <<errors appended, console
\* lines, message of the error thrown out of the loop or << >> >>. The stat
\* call of the verbose branch is awaited outside any try block: when it
\* rejects, the loop is left with what was appended before.
FileLoop(f, v, i) ==
    IF i > Len(requiredFiles) THEN << << >>, << >>, << >> >>
    ELSE LET file == requiredFiles[i]
             filePath == PathJoin(applicationDir, << file >>)
             rest == FileLoop(f, v, i + 1)
         IN  IF ~PathExists(f, filePath)
             THEN << << << "Required file missing: " >> \o PathStr(filePath) >> \o rest[1],
                     rest[2], rest[3] >>
             ELSE IF v
                  THEN IF StatThrows(f, filePath)
                       THEN << << >>, << >>, StatError(filePath) >>
                       ELSE << rest[1],
                               << << "  ", file, " (" >> \o KiloBytes(StatSize(f, filePath))
                                     \o << " KB)" >> >> \o rest[2],
                               rest[3] >>
                  ELSE rest

\* checkBuildArtifacts(results, verbose): <<errors appended, console lines,
\* message of the error thrown out of the function or << >> >>.
BuildArtifactErrors(f, v) ==
    LET head == IF v THEN << << "Checking build artifacts..." >> >> ELSE << >>
    IN  IF ~PathExists(f, artifactsDir)
        THEN << << << "build-artifacts directory not found" >> >>, head, << >> >>
        ELSE IF ~PathExists(f, applicationDir)
             THEN << << << "build-artifacts/application directory not found" >> >>,
                     head, << >> >>
             ELSE LET loop == FileLoop(f, v, 1)
                  IN  << loop[1], head \o loop[2], loop[3] >>

\* Mutant of CheckBuildArtifacts: every push is followed by
\* results.success = false.
CheckBuildArtifacts_SetsSuccess ==
    /\ pc = "ArtifactCheck"
    /\ LET out == BuildArtifactErrors(fs, verbose)
       IN  /\ results' = [results EXCEPT !.errors = @ \o out[1],
                                         !.success = @ /\ out[1] = << >>]
           /\ console' = console \o out[2]
           /\ pushed' = [pushed EXCEPT !["ArtifactCheck"] = @ + Len(out[1])]
           /\ rejection' = out[3]
           /\ trace' = trace \o (IF out[3] = << >>
                                 THEN << Enter("ArtifactCheck"), Leave("ArtifactCheck") >>
                                 ELSE << Enter("ArtifactCheck") >>)
           /\ pc' = IF out[3] = << >> THEN NextStage("ArtifactCheck") ELSE "Returned"
    /\ UNCHANGED << fs, verbose, requests, summary, exitCode, answer, run, prev >>
    /\ UNCHANGED commands

\* The first check of checkDeployment. An error thrown out of it rejects
\* checkDeployment as a whole: the later checks and the summary do not run.
CheckBuildArtifacts ==
    /\ pc = "ArtifactCheck"
    /\ LET out == BuildArtifactErrors(fs, verbose)
       IN  /\ results' = [results EXCEPT !.errors = @ \o out[1]]
           /\ console' = console \o out[2]
           /\ pushed' = [pushed EXCEPT !["ArtifactCheck"] = @ + Len(out[1])]
           /\ rejection' = out[3]
           /\ trace' = trace \o (IF out[3] = << >>
                                 THEN << Enter("ArtifactCheck"), Leave("ArtifactCheck") >>
                                 ELSE << Enter("ArtifactCheck") >>)
           /\ pc' = IF out[3] = << >> THEN NextStage("ArtifactCheck") ELSE "Returned"
    /\ UNCHANGED << fs, verbose, requests, summary, exitCode, answer, run, prev >>
    /\ UNCHANGED commands

\* Mutant of WasmIntegrity: the missing-file branch does not return, and the
\* read that follows fails into the catch block.
WasmIntegrity_NoReturn(f, v, r) ==
    LET head == IF v THEN << << "Checking WASM file integrity..." >> >> ELSE << >>
        missing == ~PathExists(f, wasmPath)
        first == IF missing
                 THEN PushError(r, << "WASM file not found for integrity check" >>)
                 ELSE r
        read == IF missing
                THEN [ok |-> FALSE, buffer |-> << >>,
                      message |-> << "ENOENT: no such file or directory, open '" >>
                                    \o PathStr(wasmPath) \o << "'" >>]
                ELSE ReadFile(f, wasmPath)
    IN  IF read.ok
        THEN [results |->
                 [first EXCEPT !.info =
                     Put(Put(@, "md5Hash", ToUpperCase(Md5Hex(read.buffer))),
                         "wasmSize", Len(read.buffer))],
              appended |-> 0,
              lines |-> head]
        ELSE [results |-> PushError(first,
                 << "Failed to calculate WASM hash: " >> \o read.message),
              appended |-> IF missing THEN 2 ELSE 1,
              lines |-> head]

\* Mutant of WasmIntegrity: a missing file is hashed as an empty buffer.
WasmIntegrity_HashesMissing(f, v, r) ==
    LET head == IF v THEN << << "Checking WASM file integrity..." >> >> ELSE << >>
        read == IF ~PathExists(f, wasmPath)
                THEN [ok |-> TRUE, buffer |-> << >>, message |-> << >>]
                ELSE ReadFile(f, wasmPath)
    IN  IF read.ok
        THEN [results |->
                 [r EXCEPT !.info =
                     Put(Put(@, "md5Hash", ToUpperCase(Md5Hex(read.buffer))),
                         "wasmSize", Len(read.buffer))],
              appended |-> 0,
              lines |-> head]
        ELSE [results |-> PushError(r,
                 << "Failed to calculate WASM hash: " >> \o read.message),
              appended |-> 1,
              lines |-> head]

\* checkWasmIntegrity(results, verbose): the report, the number of errors
\* appended and the console lines.
WasmIntegrity(f, v, r) ==
    LET head == IF v THEN << << "Checking WASM file integrity..." >> >> ELSE << >>
    IN  IF ~PathExists(f, wasmPath)
        THEN [results |-> PushError(r, << "WASM file not found for integrity check" >>),
              appended |-> 1,
              lines |-> head]
        ELSE LET read == ReadFile(f, wasmPath)
                 wasmBuffer == read.buffer
             IN  IF read.ok
                 THEN LET md5Hash == ToUpperCase(Md5Hex(wasmBuffer))
                      IN  [results |->
                              [r EXCEPT !.info =
                                  Put(Put(@, "md5Hash", md5Hash),
                                      "wasmSize", Len(wasmBuffer))],
                           appended |-> 0,
                           lines |-> head \o
                              (IF v
                               THEN << << "  WASM MD5: " >> \o md5Hash,
                                       << "  WASM Size: " >> \o KiloBytes(Len(wasmBuffer))
                                           \o << " KB" >> >>
                               ELSE << >>)]
                 ELSE [results |-> PushError(r,
                          << "Failed to calculate WASM hash: " >> \o read.message),
                       appended |-> 1,
                       lines |-> head]

CheckWasmIntegrity ==
    /\ pc = "IntegrityCheck"
    /\ \E out \in {WasmIntegrity(fs, verbose, results)} :
          /\ results' = out.results
          /\ pushed' = [pushed EXCEPT !["IntegrityCheck"] = @ + out.appended]
          /\ console' = console \o out.lines
    /\ trace' = trace \o << Enter("IntegrityCheck"), Leave("IntegrityCheck") >>
    /\ pc' = NextStage("IntegrityCheck")
    /\ UNCHANGED << fs, verbose, requests, summary, exitCode, answer, rejection, run, prev >>
    /\ UNCHANGED commands

\* The GET request queryZkWasmImage(md5) issues.
ImageRequest(md5) ==
    [method |-> "GET", url |-> << endpoint, "/image", "?", "md5=" >> \o md5]

\* Mutant of ImageCheckStart: the error is recorded but the check goes on to
\* query the catalog, for the text of the missing digest.
ImageCheckStart_NoReturn(r, v) ==
    LET noHash == ~Has(r.info, "md5Hash") \/ r.info["md5Hash"] = << >>
        imageHash == IF Has(r.info, "md5Hash") THEN r.info["md5Hash"]
                     ELSE << "undefined" >>
    IN  [results |-> IF noHash
                     THEN PushError(r, << "No WASM MD5 hash available for image check" >>)
                     ELSE r,
         appended |-> IF noHash THEN 1 ELSE 0,
         issued |-> << ImageRequest(imageHash) >>,
         lines |-> IF v
                   THEN << << "Checking zkWasm hub image availability..." >> >>
                   ELSE << >>]

\* checkZkWasmImage(results, verbose) up to the point where fetch is awaited:
\* without a digest it records an error and returns, with one it issues the
\* request.  `issued` holds the requests sent (none or one).
ImageCheckStart(r, v) ==
    LET head == IF v
                THEN << << "Checking zkWasm hub image availability..." >> >>
                ELSE << >>
        noHash == ~Has(r.info, "md5Hash") \/ r.info["md5Hash"] = << >>
    IN  IF noHash
        THEN [results |-> PushError(r, << "No WASM MD5 hash available for image check" >>),
              appended |-> 1,
              issued |-> << >>,
              lines |-> head]
        ELSE [results |-> r,
              appended |-> 0,
              issued |-> << ImageRequest(r.info["md5Hash"]) >>,
              lines |-> head]

CheckZkWasmImageBegin ==
    /\ pc = "CatalogCheck"
    /\ \E out \in {ImageCheckStart(results, verbose)} :
          /\ results' = out.results
          /\ pushed' = [pushed EXCEPT !["CatalogCheck"] = @ + out.appended]
          /\ requests' = requests \o out.issued
          /\ console' = console \o out.lines
          /\ IF out.issued = << >>
             THEN /\ trace' = trace \o << Enter("CatalogCheck"), Leave("CatalogCheck") >>
                  /\ pc' = NextStage("CatalogCheck")
             ELSE /\ trace' = Append(trace, Enter("CatalogCheck"))
                  /\ pc' = "AwaitCatalog"
    /\ UNCHANGED << fs, verbose, summary, exitCode, answer, rejection, run, prev >>
    /\ UNCHANGED commands

\* Mutant of NotFound: only a record without checksum counts as not found.
NotFound_RecordOnly(q) == q.found /\ ~q.image.isNull /\ ~Truthy(q.image.checksum)

\* `!imageInfo || !imageInfo.checksum` for what queryZkWasmImage returned.
NotFound(q) == ~q.found \/ q.image.isNull \/ ~Truthy(q.image.checksum)

\* Mutant of QueryFailed: the error is rethrown to the caller.
QueryFailed_Rethrown(r, v, message) ==
    [results |-> r,
     appended |-> 0,
     escaped |-> << "Failed to check zkWasm hub: " >> \o message,
     lines |-> << >>]

\* The catch block of checkZkWasmImage: the error is recorded, not rethrown.
QueryFailed(r, v, message) ==
    [results |-> PushError(r, << "Failed to check zkWasm hub: " >> \o message),
     appended |-> 1,
     escaped |-> << >>,
     lines |-> IF v THEN << << "  Error querying zkWasm hub: " >> \o message >>
               ELSE << >>]

\* Mutant of ImageVerdict: info.imageHash is written before the record is
\* looked at.
ImageVerdict_HashFirst(r, v, o) ==
    LET imageHash == r.info["md5Hash"]
        q == queryZkWasmImage(o)
        imageInfo == q.image
        marked == [r EXCEPT !.info = Put(@, "imageHash", imageHash)]
    IN  IF q.threw
        THEN QueryFailed(r, v, q.message)
        ELSE IF NotFound(q)
             THEN [results |-> PushError(marked,
                      << "Image not found: " >> \o imageHash \o
                      << ". Please publish the image first using the publish.sh script in your local environment or use zkwasm publish command." >>),
                   appended |-> 1,
                   escaped |-> << >>,
                   lines |-> IF v THEN << << "  Image " >> \o imageHash
                                           \o << " not found on zkWasm hub" >> >>
                             ELSE << >>]
             ELSE [results |-> [marked EXCEPT !.info =
                                   Put(@, "imageChecksum", String(imageInfo.checksum))],
                   appended |-> 0,
                   escaped |-> << >>,
                   lines |-> IF v
                             THEN << << "  Image found on zkWasm hub: " >> \o imageHash,
                                     << "  Image checksum: " >> \o String(imageInfo.checksum) >>
                             ELSE << >>]

\* The rest of checkZkWasmImage, once the request has settled with outcome o
\* (the verbose lines for the image's name and circuit size are not kept).
ImageVerdict(r, v, o) ==
    LET imageHash == r.info["md5Hash"]
        q == queryZkWasmImage(o)
        imageInfo == q.image
    IN  IF q.threw
        THEN QueryFailed(r, v, q.message)
        ELSE IF NotFound(q)
             THEN [results |-> PushError(r,
                      << "Image not found: " >> \o imageHash \o
                      << ". Please publish the image first using the publish.sh script in your local environment or use zkwasm publish command." >>),
                   appended |-> 1,
                   escaped |-> << >>,
                   lines |-> IF v THEN << << "  Image " >> \o imageHash
                                           \o << " not found on zkWasm hub" >> >>
                             ELSE << >>]
             ELSE [results |-> [r EXCEPT !.info =
                                   Put(Put(@, "imageHash", imageHash),
                                       "imageChecksum", String(imageInfo.checksum))],
                   appended |-> 0,
                   escaped |-> << >>,
                   lines |-> IF v
                             THEN << << "  Image found on zkWasm hub: " >> \o imageHash,
                                     << "  Image checksum: " >> \o String(imageInfo.checksum) >>
                             ELSE << >>]

\* An error that escapes a check rejects checkDeployment: no later stage runs.
CheckZkWasmImageSettle ==
    /\ pc = "AwaitCatalog"
    /\ \E o \in Outcomes :
          \E out \in {ImageVerdict(results, verbose, o)} :
              /\ results' = out.results
              /\ pushed' = [pushed EXCEPT !["CatalogCheck"] = @ + out.appended]
              /\ console' = console \o out.lines
              /\ answer' = << o >>
              /\ rejection' = out.escaped
              /\ pc' = IF out.escaped = << >> THEN NextStage("CatalogCheck") ELSE "Returned"
    /\ trace' = Append(trace, Leave("CatalogCheck"))
    /\ UNCHANGED << fs, verbose, requests, summary, exitCode, run, prev >>
    /\ UNCHANGED commands

\* The number of main checks the summary counts from.
TotalChecks == 3

\* Mutant of TotalPassed: the count is kept from going below zero.
TotalPassed_Clamped(r) ==
    IF Len(r.errors) > TotalChecks THEN 0 ELSE TotalChecks - Len(r.errors)

\* totalPassed of the summary: totalChecks - results.errors.length.
TotalPassed(r) == TotalChecks - Len(r.errors)

\* Mutant of Verdict: the summary leaves success as it was.
Verdict_Untouched(r) == r.success

\* results.success after the summary: false once an error is recorded.
Verdict(r) == IF Len(r.errors) > 0 THEN FALSE ELSE r.success

\* The summary of checkDeployment and its return.
Summarize ==
    /\ pc = "Summarize"
    /\ LET totalPassed == TotalPassed(results)
           failed == Len(results.errors) > 0
           success == Verdict(results)
           warningLines ==
               IF Len(results.warnings) > 0
               THEN << << "Warnings: " >> \o NumStr(Len(results.warnings)) >>
                      \o (IF verbose
                          THEN [i \in 1..Len(results.warnings) |->
                                   << "   - " >> \o results.warnings[i]]
                          ELSE << >>)
               ELSE << >>
           errorLines ==
               IF failed
               THEN << << "Errors: " >> \o NumStr(Len(results.errors)) >>
                      \o [i \in 1..Len(results.errors) |-> << "   - " >> \o results.errors[i]]
               ELSE << >>
           verdictLines ==
               IF success
               THEN << << "\nAll deployment checks passed!" >>,
                       << "\nReady for deployment!" >> >>
               ELSE << << "\nDeployment readiness check failed!" >>,
                       << "\nPlease fix the errors above before deploying." >> >>
       IN  /\ results' = [results EXCEPT !.success = success]
           /\ summary' = [totalPassed |-> totalPassed,
                          verdict |-> IF success THEN "passed" ELSE "failed"]
           /\ console' = console
                 \o << << "\nDeployment Check Summary:" >>,
                       << "Checks passed: " >> \o NumStr(totalPassed) >>
                 \o warningLines \o errorLines \o verdictLines
    /\ trace' = trace \o << Enter("Summarize"), Leave("Summarize") >>
    /\ pc' = "Returned"
    /\ UNCHANGED << fs, verbose, requests, pushed, exitCode, answer, rejection, run, prev >>
    /\ UNCHANGED commands

\* The exit code of the `check` command's action once checkDeployment has
\* settled: a rejection is caught, reported and answered with exit code 1; a
\* report is bound to `result` and not looked at, and the process ends with
\* code 0 when the action has returned.
CommandExitCode(r, rejected) == IF rejected # << >> THEN 1 ELSE 0

CheckCommandFinish ==
    /\ pc = "Returned"
    /\ exitCode' = << CommandExitCode(results, rejection) >>
    /\ console' = console \o
          (IF rejection # << >>
           THEN << << "Error during check: " >> \o rejection >>
           ELSE << >>)
    /\ trace' = Append(trace, Enter("End"))
    /\ pc' = "Exited"
    /\ UNCHANGED << fs, verbose, results, requests, pushed, summary, answer, rejection,
                    run, prev >>
    /\ UNCHANGED commands

\* The command is run again over the same working directory.
RunAgain ==
    /\ pc = "Exited"
    /\ run < MaxRuns
    /\ run' = run + 1
    /\ prev' = [k \in DOMAIN results.info \cap {"md5Hash", "wasmSize"} |-> results.info[k]]
    /\ verbose' \in BOOLEAN
    /\ pc' = "Command"
    /\ results' = NewResults
    /\ requests' = << >>
    /\ console' = << >>
    /\ trace' = << >>
    /\ pushed' = [c \in Checks |-> 0]
    /\ summary' = << >>
    /\ exitCode' = << >>
    /\ answer' = << >>
    /\ rejection' = << >>
    /\ UNCHANGED fs
    /\ UNCHANGED commands

Next ==
    \/ CheckCommand
    \/ CheckBuildArtifacts
    \/ CheckWasmIntegrity
    \/ CheckZkWasmImageBegin
    \/ CheckZkWasmImageSettle
    \/ Summarize
    \/ CheckCommandFinish
    \/ RunAgain

Spec == Init /\ [][Next]_vars

\* The same program over the working directories in which an entry can
\* change between the existence probe and the stat call.
InitIO ==
    /\ fs \in FaultySnapshots
    /\ verbose \in BOOLEAN
    /\ pc = "Command"
    /\ results = NewResults
    /\ requests = << >>
    /\ console = << >>
    /\ trace = << >>
    /\ pushed = [c \in Checks |-> 0]
    /\ summary = << >>
    /\ exitCode = << >>
    /\ answer = << >>
    /\ rejection = << >>
    /\ run = 1
    /\ prev = << >>
    /\ creation = << >>
    /\ validation = << >>
    /\ publishing = << >>
    /\ script = << >>
    /\ configuration = << >>
    /\ building = << >>

SpecIO == InitIO /\ [][Next]_vars

\* ----------------------------------------------------------------- create
\* `zkwasm create <project-name>`: the command's action (index.js) and
\* createProject (create-project.ts).

\* The state of the `check` command while another command is the one run.
CheckingIdle ==
    /\ fs = [entries |-> << >>, content |-> << >>, faulty |-> {}]
    /\ verbose = FALSE
    /\ pc = "Idle"
    /\ results = NewResults
    /\ requests = << >>
    /\ console = << >>
    /\ trace = << >>
    /\ pushed = [c \in Checks |-> 0]
    /\ summary = << >>
    /\ exitCode = << >>
    /\ answer = << >>
    /\ rejection = << >>
    /\ run = 1
    /\ prev = << >>

JsNull == [t |-> "null", s |-> << >>, n |-> 0]

\* `${code}` of an exit code: a number, or null for a child ended by a signal.
CodeStr(code) == IF code.t = "null" THEN << "null" >> ELSE NumStr(code.n)

\* The event of a spawned child that its listeners see first: 'close' with
\* the exit code, or 'error' when the command could not be run.
ChildEvents ==
    {[on |-> "close", code |-> c, message |-> << >>] :
        c \in {JsNumber(0), JsNumber(1), JsNull}}
    \cup {[on |-> "error", code |-> JsNull, message |-> << "spawn ENOENT" >>]}

\* What the CLI package ships: the template directory with its files, and
\* the common files one level up from cli/.
templateFiles == << "src/", "ts/" >>
templateOptionalFiles == << "Cargo.lock" >>
commonFiles == << ".gitignore", ".env.example", "rust-toolchain", "Makefile" >>

FullPackage ==
    {"templates/basic", "src/", "ts/", "Cargo.lock", ".gitignore", ".env.example",
     "rust-toolchain", "Makefile", ".github", "Cargo.toml.template",
     "README.md.template"}

Packages ==
    {FullPackage,
     FullPackage \ {"Cargo.lock", ".env.example", ".github", "README.md.template"},
     FullPackage \ {"templates/basic", "src/", "ts/", "Cargo.lock",
                    "Cargo.toml.template", "README.md.template"}}

\* path.resolve(options.directory, projectName) before the command: absent,
\* or a directory with the entries it holds.
TargetDirs ==
    {[exists |-> FALSE, entries |-> {}],
     [exists |-> TRUE, entries |-> {}],
     [exists |-> TRUE, entries |-> {"notes.txt"}]}

\* The names of seq that the package ships, in order.
RECURSIVE Shipped(_, _)
Shipped(package, seq) ==
    IF seq = << >> THEN << >>
    ELSE (IF Head(seq) \in package THEN << Head(seq) >> ELSE << >>)
            \o Shipped(package, Tail(seq))

Range(seq) == {seq[i] : i \in 1..Len(seq)}

InitCreate ==
    /\ CheckingIdle
    /\ creation \in
          [pc : {"Command"},
           projectName : {"hello", "my-app"},
           options : [skipInstall : BOOLEAN],
           package : Packages,
           targetDir : TargetDirs,
           before : TargetDirs,
           config : {<< >>},
           steps : {<< >>},
           spawned : {<< >>},
           events : {<< >>},
           settled : {<< >>},
           pending : {<< >>},
           console : {<< >>},
           error : {<< >>},
           exitCode : {<< >>}]
    /\ creation.before = creation.targetDir
    /\ validation = << >>
    /\ publishing = << >>
    /\ script = << >>
    /\ configuration = << >>
    /\ building = << >>

\* createProject throws: the rejection reaches the command's catch block.
CreateRejected(c, message) == [c EXCEPT !.pc = "Rejected", !.error = message]

\* Mutant of CreateCommand: the target directory is not probed.
CreateCommand_NoProbe ==
    /\ creation # << >>
    /\ creation.pc = "Command"
    /\ creation' = [creation EXCEPT
          !.pc = "Prompt",
          !.console = @ \o
             << << "Creating zkWasm project: ", creation.projectName >>,
                << "Creating zkWasm project: ", creation.projectName >>,
                << "Template: ", "Basic zkWasm Hello World" >>,
                << "Description: ",
                   "A simple zkWasm application with basic state management and settlement logic" >>,
                << "\nThis is a Hello World template with basic zkWasm functionality" >> >>]
    /\ UNCHANGED << checking, validation, publishing, script, configuration, building >>

\* The action of the command up to the first await of createProject that
\* does not settle at once: the existence probe of the target directory.
CreateCommand ==
    /\ creation # << >>
    /\ creation.pc = "Command"
    /\ LET c == [creation EXCEPT !.console =
                    Append(@, << "Creating zkWasm project: ", creation.projectName >>)]
       IN  creation' =
             IF c.targetDir.exists
             THEN CreateRejected(c, << "Directory ", c.projectName, " already exists" >>)
             ELSE [c EXCEPT
                     !.pc = "Prompt",
                     !.console = @ \o
                        << << "Creating zkWasm project: ", c.projectName >>,
                           << "Template: ", "Basic zkWasm Hello World" >>,
                           << "Description: ",
                              "A simple zkWasm application with basic state management and settlement logic" >>,
                           << "\nThis is a Hello World template with basic zkWasm functionality" >> >>]
    /\ UNCHANGED << checking, validation, publishing, script, configuration, building >>

\* collectProjectConfig: the answers of the prompt.
CollectProjectConfig ==
    /\ creation # << >>
    /\ creation.pc = "Prompt"
    /\ \E useGithubActions \in BOOLEAN :
          creation' = [creation EXCEPT
             !.pc = "EnsureDir",
             !.steps = Append(@, "prompt"),
             !.config = [projectName |-> creation.projectName,
                         template |-> "basic",
                         useGithubActions |-> useGithubActions]]
    /\ UNCHANGED << checking, validation, publishing, script, configuration, building >>

\* fs.ensureDir(targetDir).
EnsureDir ==
    /\ creation # << >>
    /\ creation.pc = "EnsureDir"
    /\ creation' = [creation EXCEPT
          !.pc = "Copy",
          !.steps = Append(@, "ensureDir"),
          !.targetDir.exists = TRUE]
    /\ UNCHANGED << checking, validation, publishing, script, configuration, building >>

\* copyTemplateFiles and generateTemplatedFiles: what the package ships is
\* copied or rendered into the target directory.
CopyTemplateFiles ==
    /\ creation # << >>
    /\ creation.pc = "Copy"
    /\ LET c == [creation EXCEPT
                    !.steps = Append(@, "copyTemplateFiles"),
                    !.console = Append(@, << "Copying template files..." >>)]
           copied == Shipped(c.package, templateFiles \o templateOptionalFiles)
           common == Shipped(c.package, commonFiles)
           github == IF c.config.useGithubActions
                     THEN Shipped(c.package, << ".github" >>)
                     ELSE << >>
           rendered ==
               (IF "Cargo.toml.template" \in c.package THEN << "Cargo.toml" >> ELSE << >>)
               \o (IF "README.md.template" \in c.package THEN << "README.md" >> ELSE << >>)
       IN  creation' =
             IF "templates/basic" \notin c.package
             THEN CreateRejected(c, << "Template directory not found: ", "templates/basic" >>)
             ELSE [c EXCEPT
                     !.pc = "Config",
                     !.targetDir.entries =
                         @ \cup Range(copied \o common \o github \o rendered),
                     !.console = @
                        \o [i \in 1..Len(copied) |->
                               << "  Copied ", copied[i], " from template" >>]
                        \o [i \in 1..Len(common) |->
                               << "  Copied ", common[i], " from package directory" >>]
                        \o [i \in 1..Len(github) |->
                               << "  Copied .github/ from package directory" >>]
                        \o << << "Generating configuration files..." >> >>
                        \o [i \in 1..Len(rendered) |-> << "  Generated ", rendered[i] >>]]
    /\ UNCHANGED << checking, validation, publishing, script, configuration, building >>

\* Mutant of GenerateConfigFiles: options.skipInstall is not looked at.
GenerateConfigFiles_IgnoresSkip ==
    /\ creation # << >>
    /\ creation.pc = "Config"
    /\ creation' = [creation EXCEPT
          !.pc = "NpmInstall",
          !.steps = Append(@, "generateConfigFiles"),
          !.targetDir.entries = @ \cup {"zkwasm.config.json"}]
    /\ UNCHANGED << checking, validation, publishing, script, configuration, building >>

\* generateConfigFiles, and the branch on options.skipInstall after it.
GenerateConfigFiles ==
    /\ creation # << >>
    /\ creation.pc = "Config"
    /\ creation' = [creation EXCEPT
          !.pc = IF creation.options.skipInstall THEN "Git" ELSE "NpmInstall",
          !.steps = Append(@, "generateConfigFiles"),
          !.targetDir.entries = @ \cup {"zkwasm.config.json"}]
    /\ UNCHANGED << checking, validation, publishing, script, configuration, building >>

\* The 'close' events of a child.
CloseEvents == {event \in ChildEvents : event.on = "close"}

\* Mutant of Settle: a promise that was settled is settled again.
Settle_Again(c, what, how, after) ==
    [after EXCEPT !.settled = Append(@, << what, how >>)]

\* resolve() or reject() of the promise that wraps the child `what`: the
\* first call settles the promise and lets the awaiting code go on as
\* `after`; a call on a settled promise changes nothing.
Settle(c, what, how, after) ==
    IF \E i \in 1..Len(c.settled) : c.settled[i][1] = what
    THEN c
    ELSE [after EXCEPT !.settled = Append(@, << what, how >>)]

\* A listener of the child `what` hears `event`: after 'error' the child's
\* 'close' is still to come.
Heard(c, what, event) ==
    [c EXCEPT !.events = Append(@, << what, event >>),
              !.pending = IF event.on = "error" THEN << what >> ELSE << >>]

\* The listeners of a child of installDependencies: 'close' with code 0
\* logs `done` and resolves, 'close' with another code and 'error' reject.
ChildSettles(c, what, event, done, next) ==
    LET heard == Heard(c, what, event)
    IN  IF event.on = "error"
        THEN Settle(heard, what, "reject",
                    CreateRejected(heard, << "Failed to run ", what, ": " >>
                                              \o event.message))
        ELSE IF event.code = JsNumber(0)
             THEN LET logged == [heard EXCEPT !.console = Append(@, << done >>)]
                  IN  Settle(logged, what, "resolve", [logged EXCEPT !.pc = next])
             ELSE Settle(heard, what, "reject",
                         CreateRejected(heard, << what, " failed with code " >>
                                                   \o CodeStr(event.code)))

\* installDependencies, first half: npm install in ts/.
NpmInstall ==
    /\ creation # << >>
    /\ creation.pc = "NpmInstall"
    /\ \E event \in ChildEvents :
          creation' = ChildSettles(
             [creation EXCEPT
                !.steps = Append(@, "installDependencies"),
                !.console = Append(@, << "Installing dependencies..." >>),
                !.spawned = Append(@, << "npm", "install" >>)],
             "npm install", event, "Dependencies installed successfully", "Tsc")
    /\ UNCHANGED << checking, validation, publishing, script, configuration, building >>

\* installDependencies, second half: npx tsc in ts/.
TscCompile ==
    /\ creation # << >>
    /\ creation.pc = "Tsc"
    /\ \E event \in ChildEvents :
          creation' = ChildSettles(
             [creation EXCEPT
                !.console = Append(@, << "Compiling TypeScript..." >>),
                !.spawned = Append(@, << "npx", "tsc" >>)],
             "TypeScript compilation", event, "TypeScript compiled successfully", "Git")
    /\ UNCHANGED << checking, validation, publishing, script, configuration, building >>

\* The lines createProject prints once initializeGit has resolved.
CreatedLines(c) ==
    << << "\nProject ", c.projectName, " created successfully!" >>,
       << "\nNext steps:" >>,
       << "   cd ", c.projectName >>,
       << "   zkwasm-dapp init     # Initialize development environment" >>,
       << "   zkwasm-dapp build    # Build the project" >>,
       << "   zkwasm-dapp check    # Check deployment readiness" >>,
       << "\nTemplate System:" >>,
       << "   Currently using: Basic Hello World template" >>,
       << "   To add more templates: See cli/create-project.ts" >>,
       << "   Template files: Use current src/ as reference" >> >>

\* Mutant of GitSettles: 'error' rejects, as it does for the other children.
GitSettles_ErrorRejects(c, event) ==
    LET heard == Heard(c, "git init", event)
    IN  IF event.on = "error"
        THEN Settle(heard, "git init", "reject",
                    CreateRejected(heard, << "Failed to run ", "git init", ": " >>
                                              \o event.message))
        ELSE LET logged == [heard EXCEPT
                               !.console = Append(@, << "Git repository initialized" >>)]
             IN  Settle(logged, "git init", "resolve",
                        [logged EXCEPT !.pc = "Resolved",
                                       !.console = @ \o CreatedLines(c)])

\* The listeners of the git child: 'close' with any code and 'error' both
\* log a line and resolve; createProject then prints its closing lines.
GitSettles(c, event) ==
    LET heard == Heard(c, "git init", event)
        logged == [heard EXCEPT
                      !.targetDir.entries =
                          IF event.on = "close" /\ event.code = JsNumber(0)
                          THEN @ \cup {".git"} ELSE @,
                      !.console = Append(@,
                          IF event.on = "close"
                          THEN << "Git repository initialized" >>
                          ELSE << "Git not available, skipping repository initialization" >>)]
    IN  Settle(logged, "git init", "resolve",
               [logged EXCEPT !.pc = "Resolved",
                              !.console = @ \o CreatedLines(c)])

\* initializeGit: the spawn of `git init` and the child's first event.
InitializeGit ==
    /\ creation # << >>
    /\ creation.pc = "Git"
    /\ \E event \in ChildEvents :
          creation' = GitSettles(
             [creation EXCEPT
                !.steps = Append(@, "initializeGit"),
                !.spawned = Append(@, << "git", "init" >>),
                !.console = Append(@, << "Initializing Git repository..." >>)],
             event)
    /\ UNCHANGED << checking, validation, publishing, script, configuration, building >>

\* A child that emitted 'error' emits 'close' afterwards, unless
\* process.exit(1) ended the process first: the 'close' listener of the
\* child runs on a promise that is settled already.
ChildLateClose ==
    /\ creation # << >>
    /\ creation.pending # << >>
    /\ creation.exitCode # << 1 >>
    /\ \E event \in CloseEvents :
          LET what == creation.pending[1]
          IN  creation' =
                 CASE what = "npm install" ->
                        ChildSettles(creation, what, event,
                                     "Dependencies installed successfully", "Tsc")
                   [] what = "TypeScript compilation" ->
                        ChildSettles(creation, what, event,
                                     "TypeScript compiled successfully", "Git")
                   [] OTHER -> GitSettles(creation, event)
    /\ UNCHANGED << checking, validation, publishing, script, configuration, building >>

\* The end of the command's action: the success line, or the catch block
\* with process.exit(1).
CreateCommandFinish ==
    /\ creation # << >>
    /\ creation.pc \in {"Resolved", "Rejected"}
    /\ creation' =
          IF creation.pc = "Resolved"
          THEN [creation EXCEPT
                  !.pc = "Exited",
                  !.exitCode = << 0 >>,
                  !.console = Append(@, << "Project ", creation.projectName,
                                           " created successfully!" >>)]
          ELSE [creation EXCEPT
                  !.pc = "Exited",
                  !.exitCode = << 1 >>,
                  !.console = Append(@, << "Error creating project: " >> \o creation.error)]
    /\ UNCHANGED << checking, validation, publishing, script, configuration, building >>

NextCreate ==
    \/ CreateCommand
    \/ CollectProjectConfig
    \/ EnsureDir
    \/ CopyTemplateFiles
    \/ GenerateConfigFiles
    \/ NpmInstall
    \/ TscCompile
    \/ InitializeGit
    \/ ChildLateClose
    \/ CreateCommandFinish

SpecCreate == InitCreate /\ [][NextCreate]_vars

\* ------------------------------------------------------------- publish.sh
\* A run of the script generateScript(config) writes to ts/publish.sh.

\* What the script is generated from and run with: config.address and
\* config.priv, the environment variables that override them ("" when unset
\* or empty), the presence of the file at $WASM_PATH, and the optional
\* parameters of the command.
ScriptInputs ==
    [address : {<< >>, << "0xd8f157Cc95Bc40B4F0B58eb48046FebedbF26Bde" >>},
     ZKWASM_ADDRESS : {<< >>, << "0xabc" >>},
     priv : {<< >>, << "2763537251" >>},
     ZKWASM_PRIVATE_KEY : {<< >>, << "0x123" >>},
     wasmFile : BOOLEAN,
     auto_submit_network_ids : {<< >>, << "56" >>},
     import_data_image : {<< >>, << "ABCD" >>}]

\* ${VAR:-"default"}: the default when VAR is unset or empty.
OrDefault(var, default) == IF var = << >> THEN default ELSE var

\* What the addimage command can print (stdout and stderr together), by line.
AddImageOutputs ==
    {<< >>,
     << << "Image added: ", "ABCD" >> >>,
     << << "Error: ", "image ", "already exists" >> >>,
     << << "Checking image" >>, << "already exists", " on the hub" >> >>}

\* The exit codes of the addimage command.
AddImageCodes == {0, 1, 2}

\* grep -q "already exists" over the output.
MatchesAlreadyExists(output) ==
    \E i \in 1..Len(output) : \E j \in 1..Len(output[i]) :
        output[i][j] = "already exists"

\* The command line the script builds.
AddImageCommand(in, ADDRESS, PRIV) ==
    << "node node_modules/zkwasm-service-cli/dist/index.js addimage",
       " -r ", "https://rpc.zkwasmhub.com:8090",
       " -p ", "node_modules/zkwasm-ts-server/src/application/application_bg.wasm",
       " -c ", "22",
       " -u " >> \o ADDRESS \o << " -x " >> \o PRIV \o
    << " -d ", "zkWasm application",
       " -n ", "zkwasm-app",
       " --creator_paid_proof ", "false",
       " --creator_only_add_prove_task ", "false" >>
    \o (IF in.auto_submit_network_ids # << >>
        THEN << " --auto_submit_network_ids " >> \o in.auto_submit_network_ids
        ELSE << >>)
    \o (IF in.import_data_image # << >>
        THEN << " --import_data_image " >> \o in.import_data_image
        ELSE << >>)

InitScript ==
    /\ CheckingIdle
    /\ script \in
          [pc : {"Start"},
           in : ScriptInputs,
           CMD : {<< >>},
           OUTPUT : {<< >>},
           EXIT_CODE : {<< >>},
           ran : {<< >>},
           stdout : {<< >>},
           exitCode : {<< >>}]
    /\ creation = << >>
    /\ validation = << >>
    /\ publishing = << >>
    /\ configuration = << >>
    /\ building = << >>

\* exit n.
ScriptExit(s, lines, n) ==
    [s EXCEPT !.pc = "Exited", !.stdout = @ \o lines, !.exitCode = << n >>]

\* The script up to the point where the command is run: the configuration,
\* the three required-parameter checks and the command line.
ScriptPrepare ==
    /\ script # << >>
    /\ script.pc = "Start"
    /\ LET ADDRESS == OrDefault(script.in.ZKWASM_ADDRESS, script.in.address)
           PRIV == OrDefault(script.in.ZKWASM_PRIVATE_KEY, script.in.priv)
           WASM_PATH ==
               "node_modules/zkwasm-ts-server/src/application/application_bg.wasm"
           s == [script EXCEPT !.stdout = << << "Publishing to zkWasm hub..." >> >>]
           CMD == AddImageCommand(script.in, ADDRESS, PRIV)
       IN  script' =
             IF ADDRESS = << >>
             THEN ScriptExit(s,
                     << << "Error: Wallet address not provided" >>,
                        << "   Set ZKWASM_ADDRESS environment variable or edit this script" >> >>,
                     1)
             ELSE IF PRIV = << >>
             THEN ScriptExit(s,
                     << << "Error: Private key not provided" >>,
                        << "   Set ZKWASM_PRIVATE_KEY environment variable or edit this script" >> >>,
                     1)
             ELSE IF ~script.in.wasmFile
             THEN ScriptExit(s,
                     << << "Error: WASM file not found: ", WASM_PATH >>,
                        << "   Please build the project first: make build" >> >>,
                     1)
             ELSE [s EXCEPT
                     !.pc = "Run",
                     !.CMD = CMD,
                     !.stdout = @ \o
                        << << "Publishing WASM file: ", WASM_PATH >>,
                           << "Target endpoint: ", "https://rpc.zkwasmhub.com:8090" >>,
                           << "Address: " >> \o ADDRESS,
                           << "Running command:" >>,
                           CMD,
                           << >> >>]
    /\ UNCHANGED << checking, creation, validation, publishing, configuration, building >>

\* OUTPUT=$(eval $CMD 2>&1) under `set -e`, then EXIT_CODE=$? and
\* echo "$OUTPUT": the status of an assignment is the status of its command
\* substitution, so a non-zero status ends the shell on that line with that
\* status, before anything is echoed.
AssignOutput(s, output, code) ==
    LET t == [s EXCEPT !.ran = << [output |-> output, code |-> code] >>,
                       !.OUTPUT = output]
    IN  IF code # 0
        THEN ScriptExit(t, << >>, code)
        ELSE [t EXCEPT
                !.pc = "Verdict",
                !.EXIT_CODE = << code >>,
                !.stdout = @ \o output]

ScriptRun ==
    /\ script # << >>
    /\ script.pc = "Run"
    /\ \E output \in AddImageOutputs, code \in AddImageCodes :
          script' = AssignOutput(script, output, code)
    /\ UNCHANGED << checking, creation, validation, publishing, configuration, building >>

\* The if / elif / else at the end of the script.
ScriptVerdict ==
    /\ script # << >>
    /\ script.pc = "Verdict"
    /\ script' =
          IF MatchesAlreadyExists(script.OUTPUT)
          THEN ScriptExit(script,
                  << << >>,
                     << "Image already exists on zkWasm hub" >>,
                     << "No action needed - image is ready for deployment" >> >>,
                  0)
          ELSE IF script.EXIT_CODE[1] # 0
          THEN ScriptExit(script,
                  << << >>,
                     << "Publish failed with exit code " >> \o NumStr(script.EXIT_CODE[1]),
                     << "Please check the error message above" >> >>,
                  script.EXIT_CODE[1])
          ELSE ScriptExit(script,
                  << << >>,
                     << "Image published successfully!" >>,
                     << "You can now run 'zkwasm-dapp check' to verify deployment readiness" >> >>,
                  0)
    /\ UNCHANGED << checking, creation, validation, publishing, configuration, building >>

NextScript ==
    \/ ScriptPrepare
    \/ ScriptRun
    \/ ScriptVerdict

SpecScript == InitScript /\ [][NextScript]_vars

\* ---------------------------------------------------------------- publish
\* `zkwasm publish` (index.js) and generatePublishScript (generate-publish.js).

\* ./ts/publish.sh: missing, the script found by the command, or a script
\* written by this run from the configuration collected.
ExistingScript == [origin |-> "existing", config |-> << >>]
Generated(config) == [origin |-> "generated", config |-> config]

sharedAddress == << "0xd8f157Cc95Bc40B4F0B58eb48046FebedbF26Bde" >>
sharedPrivateKey == << "2763537251e2f27dc6a30179e7bf1747239180f45b92db059456b7da8194995a" >>

\* What the user can type at an input prompt: nothing (the default is
\* taken) or a value.
Typed(values) == {<< >>} \cup values

\* collectPublishConfig: the configuration for the answers given.
PublishConfig(env, useOwnCredentials, address, priv, networks, image) ==
    [address |-> IF useOwnCredentials
                 THEN OrDefault(address, env.ZKWASM_ADDRESS)
                 ELSE sharedAddress,
     priv |-> IF useOwnCredentials
              THEN OrDefault(priv, env.ZKWASM_PRIVATE_KEY)
              ELSE sharedPrivateKey,
     auto_submit_network_ids |-> networks,
     import_data_image |-> image]

InitPublish ==
    /\ CheckingIdle
    /\ publishing \in
          [pc : {"Command"},
           tsDir : BOOLEAN,
           file : {<< >>, << ExistingScript >>},
           before : {<< >>, << ExistingScript >>},
           env : [ZKWASM_ADDRESS : {<< >>, << "0xabc" >>},
                  ZKWASM_PRIVATE_KEY : {<< >>, << "0x123" >>}],
           action : {<< >>},
           events : {<< >>},
           child : {<< >>},
           console : {<< >>},
           exitCode : {<< >>}]
    /\ publishing.file # << >> => publishing.tsDir
    /\ publishing.before = publishing.file
    /\ creation = << >>
    /\ validation = << >>
    /\ script = << >>
    /\ configuration = << >>
    /\ building = << >>

\* The first lines of generatePublishScript and of collectPublishConfig.
GenerateBegins(p, line) ==
    [p EXCEPT
       !.pc = "Collect",
       !.events = Append(@, << "generate" >>),
       !.console = @ \o << << line >>,
                           << "Generating publish script for zkWasm hub...\n" >>,
                           << "Configure publish parameters:\n" >> >>]

\* spawn('bash', ['publish.sh'], {cwd: './ts'}): the child runs the file as
\* it is when spawned.
SpawnScript(p, line, next) ==
    [p EXCEPT
       !.pc = next,
       !.events = Append(@, << "spawn", p.file[1].origin >>),
       !.console = Append(@, << line >>)]

\* The action of the command up to its first prompt.
PublishCommand ==
    /\ publishing # << >>
    /\ publishing.pc = "Command"
    /\ publishing' =
          IF publishing.file # << >>
          THEN [publishing EXCEPT
                  !.pc = "Prompt",
                  !.console = Append(@, << "Found existing publish.sh script" >>)]
          ELSE GenerateBegins(publishing,
                  "No publish.sh script found, generating new one...")
    /\ UNCHANGED << checking, creation, validation, script, configuration, building >>

\* Mutant of Chosen: 'regenerate' also runs the script that was found.
Chosen_RegenerateRuns(p, action) ==
    LET q == [p EXCEPT !.action = << action >>]
    IN  CASE action = "cancel" ->
               [q EXCEPT !.pc = "Returned",
                         !.console = Append(@, << "Operation cancelled." >>)]
          [] action = "regenerate" ->
               GenerateBegins(
                  [q EXCEPT !.events = Append(@, << "spawn", q.file[1].origin >>)],
                  "Regenerating publish script...")
          [] OTHER ->
               SpawnScript(q, "Running existing publish script...", "Child")

\* The branches on the answer of the 'What would you like to do?' prompt.
Chosen(p, action) ==
    LET q == [p EXCEPT !.action = << action >>]
    IN  CASE action = "cancel" ->
               [q EXCEPT !.pc = "Returned",
                         !.console = Append(@, << "Operation cancelled." >>)]
          [] action = "regenerate" ->
               GenerateBegins(q, "Regenerating publish script...")
          [] action = "run" ->
               SpawnScript(q, "Running existing publish script...", "Child")
          [] OTHER -> [q EXCEPT !.pc = "Returned"]

PublishPrompt ==
    /\ publishing # << >>
    /\ publishing.pc = "Prompt"
    /\ \E action \in {"run", "regenerate", "cancel"} :
          publishing' = Chosen(publishing, action)
    /\ UNCHANGED << checking, creation, validation, script, configuration, building >>

\* collectPublishConfig, generateScript and the write of ./ts/publish.sh;
\* a write that fails throws into the catch block of the command.
WritePublishScript ==
    /\ publishing # << >>
    /\ publishing.pc = "Collect"
    /\ \E useOwnCredentials \in BOOLEAN,
          address \in Typed({<< "0xdef" >>}), priv \in Typed({<< "0x456" >>}),
          networks \in Typed({<< "56" >>}), image \in Typed({<< "ABCD" >>}) :
          /\ ~useOwnCredentials => address = << >> /\ priv = << >>
          /\ LET config == PublishConfig(publishing.env, useOwnCredentials,
                                         address, priv, networks, image)
                 shared ==
                     IF useOwnCredentials THEN << >>
                     ELSE << << "\nUsing shared public credentials:" >>,
                             << "   Address: " >> \o sharedAddress,
                             << "   Private key: ", "2763537251", "..." >> >>
             IN  publishing' =
                   IF ~publishing.tsDir
                   THEN [publishing EXCEPT
                           !.pc = "Exited",
                           !.exitCode = << 1 >>,
                           !.console = @ \o shared \o
                              << << "Failed to handle publish command: ",
                                    "ENOENT: no such file or directory, open './ts/publish.sh'" >> >>]
                   ELSE [publishing EXCEPT
                           !.pc = "RunNow",
                           !.file = << Generated(config) >>,
                           !.events = Append(@, << "write" >>),
                           !.console = @ \o shared \o
                              << << "\nPublish script generated successfully!" >>,
                                 << "\nUsage:" >>,
                                 << "   ./ts/publish.sh     # Run the script directly" >>,
                                 << "   zkwasm-dapp publish" >> >>]
    /\ UNCHANGED << checking, creation, validation, script, configuration, building >>

\* 'Would you like to run the publish script now?'
RunNowPrompt ==
    /\ publishing # << >>
    /\ publishing.pc = "RunNow"
    /\ \E runNow \in BOOLEAN :
          publishing' =
             IF runNow
             THEN SpawnScript(publishing, "\nRunning publish script...", "ChildNow")
             ELSE [publishing EXCEPT !.pc = "Returned"]
    /\ UNCHANGED << checking, creation, validation, script, configuration, building >>

\* The listeners of the child spawned by the command's 'run' branch.
PublishChild ==
    /\ publishing # << >>
    /\ publishing.pc = "Child"
    /\ \E event \in ChildEvents :
          publishing' =
             IF event.on = "error"
             THEN [publishing EXCEPT
                     !.pc = "Exited",
                     !.child = << event >>,
                     !.exitCode = << 1 >>,
                     !.console = Append(@, << "Failed to run publish script: " >>
                                              \o event.message)]
             ELSE IF event.code # JsNumber(0)
             THEN [publishing EXCEPT
                     !.pc = "Exited",
                     !.child = << event >>,
                     !.exitCode = << IF Truthy(event.code) THEN event.code.n ELSE 1 >>,
                     !.console = Append(@, << "Publish failed with code " >>
                                              \o CodeStr(event.code))]
             ELSE [publishing EXCEPT !.pc = "Returned", !.child = << event >>]
    /\ UNCHANGED << checking, creation, validation, script, configuration, building >>

\* The listeners of the child spawned by generatePublishScript: each prints
\* a line, none ends the process.
PublishChildNow ==
    /\ publishing # << >>
    /\ publishing.pc = "ChildNow"
    /\ \E event \in ChildEvents :
          publishing' = [publishing EXCEPT
             !.pc = "Returned",
             !.child = << event >>,
             !.console = Append(@,
                IF event.on = "error"
                THEN << "\nFailed to run publish script: " >> \o event.message
                ELSE IF event.code = JsNumber(0)
                THEN << "\nPublish completed successfully!" >>
                ELSE << "\nPublish failed with code " >> \o CodeStr(event.code))]
    /\ UNCHANGED << checking, creation, validation, script, configuration, building >>

\* Nothing is left to run: the process ends with code 0.
PublishFinish ==
    /\ publishing # << >>
    /\ publishing.pc = "Returned"
    /\ publishing' = [publishing EXCEPT !.pc = "Exited", !.exitCode = << 0 >>]
    /\ UNCHANGED << checking, creation, validation, script, configuration, building >>

NextPublish ==
    \/ PublishCommand
    \/ PublishPrompt
    \/ WritePublishScript
    \/ RunNowPrompt
    \/ PublishChild
    \/ PublishChildNow
    \/ PublishFinish

SpecPublish == InitPublish /\ [][NextPublish]_vars

\* ------------------------------------------------------------------- init
\* configureProject and createDevelopmentScripts (init-config.ts), as
\* called by initConfig from the `init` command.

\* { ...a, ...b } of two objects: the fields of b win.
Spread(a, b) ==
    [k \in DOMAIN a \cup DOMAIN b |-> IF k \in DOMAIN b THEN b[k] ELSE a[k]]

\* obj.field, or {} when the field is not set (spreading undefined adds
\* nothing).
FieldOrEmpty(obj, field) == IF field \in DOMAIN obj THEN obj[field] ELSE << >>

\* The answers of the three questions of configureProject.
Answers ==
    [environment : {"development", "production", "testing"},
     autoCheck : BOOLEAN,
     outputDir : {"./build-artifacts", "./out"}]

\* The zkwasm.config.json an earlier `init` saved for the answers.
SavedByInit(a) ==
    [environment |-> a.environment,
     build |-> [target |-> "wasm32-unknown-unknown",
                optimize |-> a.environment = "production",
                outputDir |-> a.outputDir],
     deployment |-> [autoCheck |-> a.autoCheck, environment |-> a.environment],
     updatedAt |-> "earlier"]

\* The zkwasm.config.json generateConfigFiles writes for a new project.
SavedByCreate ==
    [project |-> [name |-> "hello", version |-> "0.1.0",
                  author |-> "zkWasm Developer",
                  description |-> "A zkWasm Hello World application"],
     build |-> [target |-> "wasm32-unknown-unknown", optimize |-> TRUE],
     deployment |-> [environment |-> "development", auto_check |-> TRUE]]

\* ./zkwasm.config.json before the command: absent, not JSON, or an object.
ConfigFiles ==
    {[exists |-> FALSE, valid |-> FALSE, json |-> << >>],
     [exists |-> TRUE, valid |-> FALSE, json |-> << >>],
     [exists |-> TRUE, valid |-> TRUE, json |-> << >>],
     [exists |-> TRUE, valid |-> TRUE, json |-> SavedByCreate],
     [exists |-> TRUE, valid |-> TRUE, json |->
         SavedByInit([environment |-> "production", autoCheck |-> FALSE,
                      outputDir |-> "./out"])],
     [exists |-> TRUE, valid |-> TRUE, json |->
         SavedByInit([environment |-> "development", autoCheck |-> TRUE,
                      outputDir |-> "./build-artifacts"])]}

\* newConfig of configureProject: the existing fields, then the answers, with
\* the existing build and deployment fields spread after the new ones.
NewConfig(existingConfig, config) ==
    Spread(existingConfig,
       [environment |-> config.environment,
        build |-> Spread([target |-> "wasm32-unknown-unknown",
                          optimize |-> config.environment = "production",
                          outputDir |-> config.outputDir],
                         FieldOrEmpty(existingConfig, "build")),
        deployment |-> Spread([autoCheck |-> config.autoCheck,
                               environment |-> config.environment],
                              FieldOrEmpty(existingConfig, "deployment")),
        updatedAt |-> "now"])

\* The tools checkEnvironment probes with `<cmd> --version`, in order.
tools == << "rust", "wasm-pack", "wasm-opt", "node", "npm" >>

\* envCheck.missing for the set `found` of tools whose probe closed with 0.
Missing(found) == SelectSeq(tools, LAMBDA tool : tool \notin found)

\* The shell commands installTool runs for a tool, in order.
installCommands(tool) ==
    CASE tool = "rust" ->
           << "curl --proto '=https' --tlsv1.2 -sSf https://sh.rustup.rs | sh -s -- -y",
              "rustup target add wasm32-unknown-unknown" >>
      [] tool = "wasm-pack" ->
           << "curl https://rustwasm.github.io/wasm-pack/installer/init.sh -sSf | sh" >>
      [] OTHER -> << >>

\* runCommand(command) for the event of its child: << >> when it resolves,
\* else the message of the error it rejects with.
runCommand(event) ==
    IF event.on = "error" THEN event.message
    ELSE IF event.code = JsNumber(0) THEN << >>
         ELSE << "Command failed with code " >> \o CodeStr(event.code)

\* The commands installTool spawns for `tool` when the child of its i-th
\* command ends with events[i]: all of them, or those up to the first that
\* fails.
Spawns(tool, events) ==
    LET cmds == installCommands(tool)
        failing == {i \in 1..Len(cmds) : runCommand(events[i]) # << >>}
    IN  IF failing = {} THEN cmds
        ELSE SubSeq(cmds, 1, CHOOSE i \in failing : \A j \in failing : i <= j)

\* Mutant of installTool: the error of a failed command is not caught.
installTool_NoCatch(tool, events) ==
    LET ran == Spawns(tool, events)
        failure == IF ran = << >> THEN << >> ELSE runCommand(events[Len(ran)])
    IN  [spawned |-> ran,
         lines |-> << << "Installing ", tool, "..." >> >> \o
                   (IF failure = << >>
                    THEN << << tool, " installation completed" >> >>
                    ELSE << >>),
         thrown |-> failure]

\* installTool(tool): the commands spawned, the lines printed and the error
\* thrown to the caller (none: a failed command is caught and reported).
installTool(tool, events) ==
    LET ran == Spawns(tool, events)
        failure == IF ran = << >> THEN << >> ELSE runCommand(events[Len(ran)])
        manual == CASE tool = "rust" -> << >>
                    [] tool = "wasm-pack" -> << >>
                    [] tool = "wasm-opt" ->
                         << << "Please install binaryen manually for your platform" >> >>
                    [] OTHER -> << << "Please install ", tool, " manually" >> >>
    IN  [spawned |-> ran,
         lines |-> << << "Installing ", tool, "..." >> >> \o manual \o
                   (IF failure = << >>
                    THEN << << tool, " installation completed" >> >>
                    ELSE << << "Failed to install ", tool, ": " >> \o failure >>),
         thrown |-> << >>]

InitConfigure ==
    /\ CheckingIdle
    /\ configuration \in
          [pc : {"Command"},
           found : SUBSET Range(tools),
           missing : {<< >>},
           shouldSetup : {<< >>},
           queue : {<< >>},
           steps : {<< >>},
           spawned : {<< >>},
           before : ConfigFiles,
           configFile : ConfigFiles,
           config : {<< >>},
           scripts : {<< >>},
           console : {<< >>},
           error : {<< >>},
           exitCode : {<< >>}]
    /\ configuration.before = configuration.configFile
    /\ creation = << >>
    /\ validation = << >>
    /\ publishing = << >>
    /\ script = << >>
    /\ building = << >>

\* The action of the command and initConfig up to its branch on
\* envCheck.isValid: checkEnvironment probes every tool and lists those
\* whose probe failed.
CheckEnvironment ==
    /\ configuration # << >>
    /\ configuration.pc = "Command"
    /\ LET missing == Missing(configuration.found)
           isValid == missing = << >>
       IN  configuration' = [configuration EXCEPT
              !.pc = IF isValid THEN "Configure" ELSE "Setup",
              !.missing = missing,
              !.steps = Append(@, "checkEnvironment"),
              !.console = @ \o
                 << << "Initializing zkWasm configuration..." >>,
                    << "Initializing zkWasm development environment...\n" >> >>
                 \o [i \in 1..Len(tools) |->
                       IF tools[i] \in configuration.found
                       THEN << tools[i], ": ", "version" >>
                       ELSE << tools[i], ": not found" >>]
                 \o << IF isValid
                       THEN << "Environment is already configured\n" >>
                       ELSE << "Environment setup required\n" >> >>]
    /\ UNCHANGED << checking, creation, validation, publishing, script, building >>

\* setupEnvironment up to its loop: the prompt, and the manual guide when
\* the user declines (one heading per missing tool; the commands listed
\* under each heading are not kept).
SetupEnvironment ==
    /\ configuration # << >>
    /\ configuration.pc = "Setup"
    /\ \E shouldSetup \in BOOLEAN :
          LET c == [configuration EXCEPT
                      !.shouldSetup = << shouldSetup >>,
                      !.steps = Append(@, "setupEnvironment"),
                      !.console = Append(@, << "Missing tools detected. Let's set them up!\n" >>)]
          IN  configuration' =
                 IF ~shouldSetup
                 THEN [c EXCEPT
                         !.pc = "Configure",
                         !.console = @ \o << << "\nManual installation guide:" >> >>
                            \o [i \in 1..Len(c.missing) |->
                                  << "\nInstalling ", c.missing[i], ":" >>]]
                 ELSE [c EXCEPT !.pc = "Install", !.queue = c.missing]
    /\ UNCHANGED << checking, creation, validation, publishing, script, building >>

\* One turn of the loop of setupEnvironment: installTool for the next
\* missing tool.
InstallMissingTool ==
    /\ configuration # << >>
    /\ configuration.pc = "Install"
    /\ LET tool == Head(configuration.queue)
       IN  \E events \in [1..Len(installCommands(tool)) -> ChildEvents] :
              LET out == installTool(tool, events)
                  c == [configuration EXCEPT
                          !.queue = Tail(@),
                          !.spawned = @ \o out.spawned,
                          !.console = @ \o out.lines]
              IN  configuration' =
                     IF out.thrown # << >>
                     THEN [c EXCEPT !.pc = "Rejected", !.error = out.thrown]
                     ELSE IF c.queue = << >>
                          THEN [c EXCEPT !.pc = "Configure"]
                          ELSE c
    /\ UNCHANGED << checking, creation, validation, publishing, script, building >>

\* configureProject up to the write of ./zkwasm.config.json.
ConfigureProject ==
    /\ configuration # << >>
    /\ configuration.pc = "Configure"
    /\ \E config \in Answers :
          LET c == [configuration EXCEPT
                      !.config = << config >>,
                      !.steps = Append(@, "configureProject"),
                      !.console = Append(@, << "\nProject Configuration" >>)]
              file == c.configFile
              existingConfig == IF file.exists THEN file.json ELSE << >>
          IN  configuration' =
                IF file.exists /\ ~file.valid
                THEN [c EXCEPT
                        !.pc = "Rejected",
                        !.error = << "./zkwasm.config.json: Unexpected token in JSON" >>]
                ELSE [c EXCEPT
                        !.pc = "Scripts",
                        !.configFile = [exists |-> TRUE, valid |-> TRUE,
                                        json |-> NewConfig(existingConfig, config)],
                        !.console = Append(@, << "Configuration saved to ",
                                                 "./zkwasm.config.json" >>)]
    /\ UNCHANGED << checking, creation, validation, publishing, script, building >>

\* createDevelopmentScripts(config), and the last line of initConfig.
CreateDevelopmentScripts ==
    /\ configuration # << >>
    /\ configuration.pc = "Scripts"
    /\ LET config == configuration.config[1]
       IN  configuration' = [configuration EXCEPT
              !.pc = "Resolved",
              !.scripts =
                  << [name |-> "dev-build.sh", environment |-> config.environment,
                      runsChecks |-> config.autoCheck],
                     [name |-> "watch.sh", environment |-> config.environment,
                      runsChecks |-> FALSE] >>,
              !.console = @ \o
                  << << "Development scripts created in ./scripts/" >>,
                     << "\nConfiguration completed successfully!" >> >>]
    /\ UNCHANGED << checking, creation, validation, publishing, script, building >>

\* The end of the `init` action: the success line, or the catch block with
\* process.exit(1).
InitCommandFinish ==
    /\ configuration # << >>
    /\ configuration.pc \in {"Resolved", "Rejected"}
    /\ configuration' =
          IF configuration.pc = "Resolved"
          THEN [configuration EXCEPT
                  !.pc = "Exited",
                  !.exitCode = << 0 >>,
                  !.console = Append(@, << "Configuration initialized!" >>)]
          ELSE [configuration EXCEPT
                  !.pc = "Exited",
                  !.exitCode = << 1 >>,
                  !.console = Append(@, << "Error initializing config: " >>
                                           \o configuration.error)]
    /\ UNCHANGED << checking, creation, validation, publishing, script, building >>

NextConfigure ==
    \/ CheckEnvironment
    \/ SetupEnvironment
    \/ InstallMissingTool
    \/ ConfigureProject
    \/ CreateDevelopmentScripts
    \/ InitCommandFinish

SpecConfigure == InitConfigure /\ [][NextConfigure]_vars

\* --------------------------------------------------------------- validate
\* `zkwasm validate` (index.js) and validateProject (validate-project.js).

requiredDirs == << "src", "ts", "ts/src" >>
requiredProjectFiles == << "Cargo.toml", "Makefile", "ts/package.json", "ts/tsconfig.json" >>

\* A file of the project: absent, unparsable, or parsed (`value` is the text
\* by lines for Cargo.toml and the JSON object for the others).
Absent == [exists |-> FALSE, valid |-> FALSE, value |-> << >>]
Garbled == [exists |-> TRUE, valid |-> FALSE, value |-> << >>]
Holding(value) == [exists |-> TRUE, valid |-> TRUE, value |-> value]

CargoTomls ==
    {Absent, Holding(<< "[lib]" >>), Holding(<< "[package]" >>),
     Holding(<< "[package]", "crate-type = [\"cdylib\"]" >>)}

PackageJsons ==
    {Absent, Garbled, Holding([version |-> "1.0.0"]), Holding([name |-> "app"]),
     Holding([name |-> "app", scripts |-> "build"])}

TsConfigs ==
    {Absent, Holding([include |-> "src"]),
     Holding([compilerOptions |-> [target |-> "ES5"]]),
     Holding([compilerOptions |-> [target |-> "ES2020"]])}

ZkWasmConfigs ==
    {Absent, Garbled, Holding([environment |-> "development"]),
     Holding([build |-> [optimize |-> TRUE]])}

\* The working directories `validate` can be run in: nothing exists below a
\* directory that is missing.
Projects ==
    {p \in [dirs : SUBSET {"src", "ts", "ts/src"},
            cargo : CargoTomls,
            makefile : BOOLEAN,
            package : PackageJsons,
            tsconfig : TsConfigs,
            zkwasm : ZkWasmConfigs,
            node_modules : BOOLEAN] :
        /\ p.dirs \in {{"src", "ts", "ts/src"}, {"ts", "ts/src"}, {"src"}}
        /\ "ts" \notin p.dirs =>
              p.package = Absent /\ p.tsconfig = Absent /\ ~p.node_modules}

\* fs.pathExists(name) in the project.
ProjectHas(p, name) ==
    CASE name \in Range(requiredDirs) -> name \in p.dirs
      [] name = "Cargo.toml" -> p.cargo.exists
      [] name = "Makefile" -> p.makefile
      [] name = "ts/package.json" -> p.package.exists
      [] name = "ts/tsconfig.json" -> p.tsconfig.exists
      [] name = "zkwasm.config.json" -> p.zkwasm.exists
      [] name = "ts/node_modules" -> p.node_modules
      [] OTHER -> FALSE

\* results.errors.push(e); results.success = false.
Fail(r, e) == [r EXCEPT !.errors = Append(@, e), !.success = FALSE]

\* results.warnings.push(w).
Warn(r, w) == [r EXCEPT !.warnings = Append(@, w)]

\* The message of the error fs.readFile / fs.readJson throws for the file.
ReadError(file, name) ==
    IF file.exists
    THEN << name, ": Unexpected token in JSON" >>
    ELSE << "ENOENT: no such file or directory, open '", name, "'" >>

\* The loop over `names` of validateProjectStructure, from index i on.
RECURSIVE MissingLoop(_, _, _, _, _)
MissingLoop(p, r, names, what, i) ==
    IF i > Len(names) THEN r
    ELSE MissingLoop(p,
            IF ProjectHas(p, names[i]) THEN r
            ELSE Fail(r, << "Missing ", what, ": ", names[i] >>),
            names, what, i + 1)

validateProjectStructure(p, r) ==
    MissingLoop(p, MissingLoop(p, r, requiredDirs, "directory", 1),
                requiredProjectFiles, "file", 1)

validateCargoToml(p, r) ==
    IF ~p.cargo.exists
    THEN Fail(r, << "Failed to read Cargo.toml: " >> \o ReadError(p.cargo, "Cargo.toml"))
    ELSE LET cargoContent == p.cargo.value
             a == IF "[package]" \notin Range(cargoContent)
                  THEN Fail(r, << "Cargo.toml missing [package] section" >>)
                  ELSE r
         IN  IF "crate-type = [\"cdylib\"]" \notin Range(cargoContent)
             THEN Warn(a, << "Cargo.toml should include crate-type = [\"cdylib\"] for WASM" >>)
             ELSE a

validatePackageJson(p, r) ==
    IF ~p.package.valid
    THEN Fail(r, << "Failed to read package.json: " >>
                    \o ReadError(p.package, "ts/package.json"))
    ELSE LET packageJson == p.package.value
             a == IF ~Has(packageJson, "name")
                  THEN Fail(r, << "package.json missing name field" >>)
                  ELSE r
         IN  IF ~Has(packageJson, "scripts")
             THEN Warn(a, << "package.json missing scripts section" >>)
             ELSE a

validateTsConfig(p, r) ==
    IF ~p.tsconfig.valid
    THEN Fail(r, << "Failed to read tsconfig.json: " >>
                    \o ReadError(p.tsconfig, "ts/tsconfig.json"))
    ELSE LET tsConfig == p.tsconfig.value
             a == IF ~Has(tsConfig, "compilerOptions")
                  THEN Fail(r, << "tsconfig.json missing compilerOptions" >>)
                  ELSE r
         IN  IF /\ Has(tsConfig, "compilerOptions")
                /\ Has(tsConfig.compilerOptions, "target")
                /\ tsConfig.compilerOptions.target
                      \notin {"ES2020", "ES2021", "ES2022", "ESNext", "ESNEXT"}
             THEN Warn(a, << "tsconfig.json target \"", tsConfig.compilerOptions.target,
                             "\" may not be optimal for zkWasm" >>)
             ELSE a

\* zkwasm.config.json is optional: a missing file is a warning.
validateZkWasmConfig(p, r) ==
    IF ~p.zkwasm.exists
    THEN Warn(r, << "zkwasm.config.json not found (optional)" >>)
    ELSE IF ~p.zkwasm.valid
         THEN Fail(r, << "Failed to read zkwasm.config.json: " >>
                         \o ReadError(p.zkwasm, "zkwasm.config.json"))
         ELSE IF ~Has(p.zkwasm.value, "build")
              THEN Warn(r, << "zkwasm.config.json missing build section" >>)
              ELSE r

validateConfigFiles(p, r) ==
    validateZkWasmConfig(p, validateTsConfig(p, validatePackageJson(p,
        validateCargoToml(p, r))))

\* What the child spawned with cwd 'ts' emits: 'close' with its exit code,
\* after stderr data that did or did not mention 'error'; or 'error' when
\* npx cannot be run, which is the case whenever ts/ does not exist.
TscEvents(p) ==
    LET failed == {[on |-> "error", code |-> JsNull, hasErrors |-> FALSE]}
    IN  IF "ts" \notin p.dirs THEN failed
        ELSE failed \cup
             [on : {"close"}, code : {JsNumber(0), JsNumber(1), JsNull},
              hasErrors : BOOLEAN]

\* Mutant of TscAwaited: validateDependencies returns once the child is
\* spawned, without awaiting its 'close'.
TscAwaited_Never == "Display"

\* Where validateProject stands after the spawn: validateDependencies awaits
\* the promise that the child's 'close' event resolves.
TscAwaited == "Tsc"

InitValidate ==
    /\ CheckingIdle
    /\ validation \in
          [pc : {"Command"},
           project : Projects,
           results : {[success |-> TRUE, errors |-> << >>, warnings |-> << >>]},
           console : {<< >>},
           tsc : {<< >>},
           thrown : {<< >>},
           uncaught : {<< >>},
           exitCode : {<< >>}]
    /\ creation = << >>
    /\ publishing = << >>
    /\ script = << >>
    /\ configuration = << >>
    /\ building = << >>

\* The action of the command, validateProject up to validateDependencies'
\* spawn: every step before it settles without waiting on anything but the
\* filesystem.
ValidateCommand ==
    /\ validation # << >>
    /\ validation.pc = "Command"
    /\ LET p == validation.project
           r == validateConfigFiles(p, validateProjectStructure(p, validation.results))
       IN  validation' = [validation EXCEPT
              !.pc = TscAwaited,
              !.results =
                  IF ~ProjectHas(p, "ts/node_modules")
                  THEN Fail(r, << "TypeScript dependencies not installed. Run: cd ts && npm install" >>)
                  ELSE r,
              !.console = @ \o
                  << << "Validating project structure..." >>,
                     << "Validating project structure...\n" >>,
                     << "Checking project structure..." >>,
                     << "\nValidating configuration files..." >>,
                     << "\nChecking dependencies..." >> >>]
    /\ UNCHANGED << checking, creation, publishing, script, configuration, building >>

\* The listeners of the tsc child. 'close' runs the listener that records
\* the outcome and then the one that resolves the awaited promise, whose
\* continuation runs once both have returned. `tsc` keeps the event. 'error'
\* has no listener: the emitter throws, outside the try block that has
\* long been left, and the process dies of the uncaught exception.
ValidateTsc ==
    /\ validation # << >>
    /\ validation.pc = "Tsc"
    /\ \E event \in TscEvents(validation.project) :
          validation' =
             IF event.on = "error"
             THEN [validation EXCEPT
                     !.pc = "Exited",
                     !.tsc = << event >>,
                     !.uncaught = << "spawn npx ENOENT" >>,
                     !.exitCode = << 1 >>]
             ELSE IF event.code # JsNumber(0) \/ event.hasErrors
             THEN [validation EXCEPT
                     !.pc = "Display",
                     !.tsc = << event >>,
                     !.results = Fail(@, << "TypeScript compilation errors detected" >>)]
             ELSE [validation EXCEPT
                     !.pc = "Display",
                     !.tsc = << event >>,
                     !.console = Append(@, << "  TypeScript compilation check passed" >>)]
    /\ UNCHANGED << checking, creation, publishing, script, configuration, building >>

\* displayResults, the throw that follows it, and the end of the command's
\* action.
ValidateFinish ==
    /\ validation # << >>
    /\ validation.pc = "Display"
    /\ LET r == validation.results
           lines ==
              << << "\nValidation Summary:" >>,
                 IF r.success THEN << "All validation checks passed!" >>
                 ELSE << "Validation failed!" >> >>
              \o (IF Len(r.errors) > 0
                  THEN << << "\nErrors (" >> \o NumStr(Len(r.errors)) \o << "):" >> >>
                         \o [i \in 1..Len(r.errors) |-> << "  - " >> \o r.errors[i]]
                  ELSE << >>)
              \o (IF Len(r.warnings) > 0
                  THEN << << "\nWarnings (" >> \o NumStr(Len(r.warnings)) \o << "):" >> >>
                         \o [i \in 1..Len(r.warnings) |-> << "  - " >> \o r.warnings[i]]
                  ELSE << >>)
       IN  validation' =
             IF ~r.success
             THEN [validation EXCEPT
                     !.pc = "Exited",
                     !.thrown = << "Project validation failed" >>,
                     !.exitCode = << 1 >>,
                     !.console = @ \o lines \o
                        << << "Validation failed: ", "Project validation failed" >> >>]
             ELSE [validation EXCEPT
                     !.pc = "Exited",
                     !.exitCode = << 0 >>,
                     !.console = @ \o lines \o << << "Project structure is valid!" >> >>]
    /\ UNCHANGED << checking, creation, publishing, script, configuration, building >>

NextValidate ==
    \/ ValidateCommand
    \/ ValidateTsc
    \/ ValidateFinish

SpecValidate == InitValidate /\ [][NextValidate]_vars

\* ------------------------------------------------------------------ build
\* The exit statuses a child can end with.
ExitStatuses == 0..255

\* The event of the `make build` child that reaches the CLI first: 'close'
\* with the exit status, 'close' with null for a child ended by a signal,
\* or 'error' when make could not be run.
BuildEvents ==
    {[on |-> "close", code |-> JsNumber(n), message |-> << >>] : n \in ExitStatuses}
    \cup {[on |-> "close", code |-> JsNull, message |-> << >>],
          [on |-> "error", code |-> JsNull, message |-> << "spawn make ENOENT" >>]}

InitBuild ==
    /\ CheckingIdle
    /\ building \in
          [pc : {"Command"},
           options : [release : BOOLEAN],
           spawned : {<< >>},
           child : {<< >>},
           console : {<< >>},
           uncaught : {<< >>},
           exitCode : {<< >>}]
    /\ creation = << >>
    /\ validation = << >>
    /\ publishing = << >>
    /\ script = << >>
    /\ configuration = << >>

\* The action of the command: it spawns the child, registers the 'close'
\* listener and returns.
BuildCommand ==
    /\ building # << >>
    /\ building.pc = "Command"
    /\ building' = [building EXCEPT
          !.pc = "Child",
          !.spawned = Append(@, << "make", "build" >>),
          !.console = Append(@, << "Building zkWasm application..." >>)]
    /\ UNCHANGED << checking, creation, validation, publishing, script, configuration >>

\* Mutant of FailureExit: the child's code is passed to process.exit as is.
FailureExit_Raw(code) == IF code.t = "number" THEN code.n ELSE 0

\* `code || 1`, the argument of process.exit in the 'close' listener.
FailureExit(code) == IF Truthy(code) THEN code.n ELSE 1

\* The child's event. 'close' runs the listener; 'error' has no listener:
\* the emitter throws and the process dies of the uncaught exception.
BuildChild ==
    /\ building # << >>
    /\ building.pc = "Child"
    /\ \E event \in BuildEvents :
          building' =
             IF event.on = "error"
             THEN [building EXCEPT
                     !.pc = "Exited",
                     !.child = << event >>,
                     !.uncaught = event.message,
                     !.exitCode = << 1 >>]
             ELSE IF event.code = JsNumber(0)
             THEN [building EXCEPT
                     !.pc = "Returned",
                     !.child = << event >>,
                     !.console = Append(@, << "Build completed successfully!" >>)]
             ELSE [building EXCEPT
                     !.pc = "Exited",
                     !.child = << event >>,
                     !.console = Append(@, << "Build failed with code " >>
                                              \o CodeStr(event.code)),
                     !.exitCode = << FailureExit(event.code) >>]
    /\ UNCHANGED << checking, creation, validation, publishing, script, configuration >>

\* Nothing is left to run: the process ends with code 0.
BuildFinish ==
    /\ building # << >>
    /\ building.pc = "Returned"
    /\ building' = [building EXCEPT !.pc = "Exited", !.exitCode = << 0 >>]
    /\ UNCHANGED << checking, creation, validation, publishing, script, configuration >>

NextBuild ==
    \/ BuildCommand
    \/ BuildChild
    \/ BuildFinish

SpecBuild == InitBuild /\ [][NextBuild]_vars

\* ----------------------------------------------------------------- claims
\* The stages of the run that have been left, read off the trace.
Left(stage) == \E i \in 1..Len(trace) : trace[i] = Leave(stage)

\* checkDeployment has returned its report to the command.
Reported == pc \in {"Returned", "Exited"} /\ rejection = << >>

\* The artifact file exists in the working directory.
WasmExists == PathExists(fs, wasmPath)

\* C1: the report checkDeployment returns has success = true exactly when
\* its errors list is empty.
C1_SuccessIffNoErrors ==
    Reported => (results.success <=> results.errors = << >>)

C1_Witness ==
    /\ Reported
    /\ results.errors # << >>
    /\ ~results.success
    /\ Has(results.info, "md5Hash")

\* C2: the check command exits with code 0 when the report is successful
\* and with a non-zero code when the report holds an error.
C2_ExitCodeFollowsReport ==
    (pc = "Exited" /\ rejection = << >>) =>
        /\ results.success => exitCode = << 0 >>
        /\ ~results.success => exitCode # << 0 >>

\* C3: without info.md5Hash the catalog check appends exactly one error and
\* returns at once, and the run issues no network request; a request is only
\* ever issued after the integrity check has stored the digest, and it asks
\* for that digest.
C3_NoDigestNoRequest ==
    /\ (Left("CatalogCheck") /\ ~Has(results.info, "md5Hash")) =>
          /\ pushed["CatalogCheck"] = 1
          /\ requests = << >>
          /\ answer = << >>
          /\ results.errors[Len(results.errors)] =
                << "No WASM MD5 hash available for image check" >>
    /\ pc = "AwaitCatalog" => Has(results.info, "md5Hash")
    /\ requests # << >> =>
          /\ Len(requests) = 1
          /\ Left("IntegrityCheck")
          /\ Has(results.info, "md5Hash")
          /\ requests[1] = ImageRequest(results.info["md5Hash"])

C3_Witness ==
    /\ pc = "Exited"
    /\ ~Has(results.info, "md5Hash")
    /\ pushed["CatalogCheck"] = 1
    /\ requests = << >>

\* The stages of a complete run, in order.
FullTrace ==
    << Enter("Start"),
       Enter("ArtifactCheck"), Leave("ArtifactCheck"),
       Enter("IntegrityCheck"), Leave("IntegrityCheck"),
       Enter("CatalogCheck"), Leave("CatalogCheck"),
       Enter("Summarize"), Leave("Summarize"),
       Enter("End") >>

MissingRequired ==
    {i \in 1..Len(requiredFiles) :
        ~PathExists(fs, PathJoin(applicationDir, << requiredFiles[i] >>))}

DirsExist == PathExists(fs, artifactsDir) /\ PathExists(fs, applicationDir)

\* C5 as stated: the artifact check appends as many errors as there are
\* required files that do not exist, a missing directory included.
C5_OneErrorPerMissingFile ==
    Left("ArtifactCheck") => pushed["ArtifactCheck"] = Cardinality(MissingRequired)

\* C5, amended: with both directories present the artifact check appends one
\* error per required file that does not exist; with build-artifacts or
\* build-artifacts/application missing it appends exactly one error, for
\* the first missing directory, and looks at no file.
C5_OneErrorPerMissingPath ==
    Left("ArtifactCheck") =>
        /\ DirsExist => pushed["ArtifactCheck"] = Cardinality(MissingRequired)
        /\ ~DirsExist =>
              /\ pushed["ArtifactCheck"] = 1
              /\ results.errors[1] =
                    IF PathExists(fs, artifactsDir)
                    THEN << "build-artifacts/application directory not found" >>
                    ELSE << "build-artifacts directory not found" >>
        /\ \A i \in 1..pushed["ArtifactCheck"] :
              DirsExist => results.errors[i][1] = "Required file missing: "

C5_Witness ==
    /\ Left("ArtifactCheck")
    /\ DirsExist
    /\ Cardinality(MissingRequired) = 2
    /\ pushed["ArtifactCheck"] = 2

\* C6: if application_bg.wasm does not exist, the integrity check appends
\* exactly one error and sets neither info.md5Hash nor info.wasmSize.
C6_MissingWasmOneError ==
    (Left("IntegrityCheck") /\ ~WasmExists) =>
        /\ pushed["IntegrityCheck"] = 1
        /\ ~Has(results.info, "md5Hash")
        /\ ~Has(results.info, "wasmSize")
        /\ results.errors[pushed["ArtifactCheck"] + 1] =
              << "WASM file not found for integrity check" >>

C6_Witness ==
    /\ Left("IntegrityCheck")
    /\ DirsExist
    /\ ~WasmExists
    /\ pushed["IntegrityCheck"] = 1

UpperHexChars ==
    {"0", "1", "2", "3", "4", "5", "6", "7", "8", "9", "A", "B", "C", "D", "E", "F"}

\* MD5 digests computed independently of this model, in uppercase hex.
ReferenceDigests ==
    (<< >> :> << "D", "4", "1", "D", "8", "C", "D", "9", "8", "F", "0", "0", "B", "2", "0", "4", "E", "9", "8", "0", "0", "9", "9", "8", "E", "C", "F", "8", "4", "2", "7", "E" >>) @@ (<< 0 >> :> 
        << "9", "3", "B", "8", "8", "5", "A", "D", "F", "E", "0", "D", "A", "0", "8", "9", "C", "D", "F", "6", "3", "4", "9", "0", "4", "F", "D", "5", "9", "F", "7", "1" >>) @@ (<< 0, 1, 2 >> :> 
        << "B", "9", "5", "F", "6", "7", "F", "6", "1", "E", "B", "B", "0", "3", "6", "1", "9", "6", "2", "2", "D", "7", "9", "8", "F", "4", "5", "F", "C", "2", "D", "3" >>)

\* C7: a successful read stores info.md5Hash and info.wasmSize together and
\* appends no error; the digest is 32 uppercase hexadecimal characters, it
\* is the MD5 of the artifact's bytes, the size is their number, and a
\* second run over the same bytes stores the same digest and size.
C7_DigestDeterministic ==
    /\ Has(results.info, "md5Hash") <=> Has(results.info, "wasmSize")
    /\ Left("IntegrityCheck") =>
          (Has(results.info, "md5Hash") <=>
              (WasmExists /\ fs.entries[Normalize(wasmPath)] = "file"))
    /\ Has(results.info, "md5Hash") =>
          /\ pushed["IntegrityCheck"] = 0
          /\ Len(results.info["md5Hash"]) = 32
          /\ \A i \in 1..32 : results.info["md5Hash"][i] \in UpperHexChars
          /\ results.info["wasmSize"] = Len(fs.content)
          /\ fs.content \in DOMAIN ReferenceDigests =>
                results.info["md5Hash"] = ReferenceDigests[fs.content]
          /\ run > 1 => prev = [k \in {"md5Hash", "wasmSize"} |-> results.info[k]]
    /\ (run > 1 /\ Left("IntegrityCheck") /\ Has(prev, "md5Hash")) =>
          Has(results.info, "md5Hash")

C7_Witness ==
    /\ run = 2
    /\ Has(prev, "md5Hash")
    /\ Has(results.info, "md5Hash")
    /\ Len(fs.content) = MaxLen
    /\ pushed["IntegrityCheck"] = 0

\* The catalog answered, and its answer held no image: the result list is
\* absent, not a list, or empty.
EmptyAnswer(o) ==
    /\ o.fetch = "resolves" /\ ResponseOk(o.status) /\ o.json = "parses"
    /\ ~o.body.isNull
    /\ (o.body.result # "array" \/ o.body.images = << >>)

Mentions(message, fragment) == \E i \in 1..Len(message) : message[i] = fragment

\* C8: with a digest computed and an empty or absent result list, the
\* catalog check appends exactly one error, which says the image was not
\* found, sets neither info.imageChecksum nor info.imageHash, and the run
\* ends with success = false.
C8_EmptyListNotFound ==
    (answer # << >> /\ EmptyAnswer(answer[1])) =>
        /\ Has(results.info, "md5Hash")
        /\ pushed["CatalogCheck"] = 1
        /\ Mentions(results.errors[Len(results.errors)], "Image not found: ")
        /\ ~Has(results.info, "imageChecksum")
        /\ ~Has(results.info, "imageHash")
        /\ rejection = << >>
        /\ pc \in {"Returned", "Exited"} => ~results.success

C8_Witness ==
    /\ pc = "Exited"
    /\ answer # << >>
    /\ EmptyAnswer(answer[1])
    /\ answer[1].body.result = "array"
    /\ Len(results.errors) = 1
    /\ ~results.success

\* The catalog answered with a list whose first record has a non-empty
\* checksum.
FoundAnswer(o) ==
    /\ o.fetch = "resolves" /\ ResponseOk(o.status) /\ o.json = "parses"
    /\ ~o.body.isNull
    /\ o.body.result = "array" /\ o.body.images # << >>
    /\ ~o.body.images[1].isNull
    /\ Truthy(o.body.images[1].checksum)

\* C9: with a digest computed and a first record whose checksum c is not
\* empty, the catalog check appends no error and sets info.imageChecksum to
\* c (to its decimal text if c is a number); if no other check recorded an
\* error either, the run ends with success = true.
C9_FoundSetsChecksum ==
    (answer # << >> /\ FoundAnswer(answer[1])) =>
        LET c == answer[1].body.images[1].checksum
        IN  /\ pushed["CatalogCheck"] = 0
            /\ Has(results.info, "imageChecksum")
            /\ results.info["imageChecksum"] =
                  (IF c.t = "string" THEN c.s ELSE DecStr(c.n))
            /\ rejection = << >>
            /\ (pc \in {"Returned", "Exited"}
                  /\ pushed["ArtifactCheck"] = 0 /\ pushed["IntegrityCheck"] = 0)
                 => results.success

C9_Witness ==
    /\ pc = "Exited"
    /\ answer # << >>
    /\ FoundAnswer(answer[1])
    /\ Len(answer[1].body.images) = 2
    /\ results.info["imageChecksum"] = << "abc" >>
    /\ results.success

\* The catalog request failed: fetch rejected, the status was not 2xx, or
\* the body could not be read as the expected JSON.
FailedAnswer(o) ==
    \/ o.fetch = "rejects"
    \/ ~ResponseOk(o.status)
    \/ o.json = "throws"
    \/ o.body.isNull

\* C10: on a non-2xx status, a network exception or a parsing exception the
\* catalog check appends exactly one error (wrapping the status or the
\* exception's message), throws nothing to its caller, sets no
\* info.imageChecksum, and the run goes on to end with success = false.
C10_FailureModesRecorded ==
    (answer # << >> /\ FailedAnswer(answer[1])) =>
        LET e == results.errors[Len(results.errors)]
            o == answer[1]
        IN  /\ pushed["CatalogCheck"] = 1
            /\ e[1] = "Failed to check zkWasm hub: "
            /\ (o.fetch = "resolves" /\ ~ResponseOk(o.status)) =>
                  SubSeq(e, 3, Len(e)) =
                      << "HTTP " >> \o DecStr(o.status) \o << ": ", StatusText(o.status) >>
            /\ ~Has(results.info, "imageChecksum")
            /\ rejection = << >>
            /\ pc \in {"Summarize", "Returned", "Exited"}
            /\ pc \in {"Returned", "Exited"} => (summary # << >> /\ ~results.success)

C10_Witness ==
    /\ pc = "Exited"
    /\ answer # << >>
    /\ answer[1].fetch = "resolves"
    /\ ~ResponseOk(answer[1].status)
    /\ Len(results.errors) = 1
    /\ ~results.success

\* C11: no exception escapes a check function, whatever the file operations
\* and the network answer: every check that is entered is left, and
\* checkDeployment resolves with its report instead of rejecting.
C11_NoExceptionEscapes ==
    pc \in {"Returned", "Exited"} =>
        /\ \A c \in Checks : (\E i \in 1..Len(trace) : trace[i] = Enter(c)) => Left(c)
        /\ rejection = << >>

C20_ArtifactCheckFrame ==
    [][pc = "ArtifactCheck" =>
          /\ results'.info = results.info
          /\ results'.warnings = results.warnings
          /\ results'.success = results.success
          /\ fs' = fs
          /\ Len(results'.errors) >= Len(results.errors)
          /\ SubSeq(results'.errors, 1, Len(results.errors)) = results.errors]_vars

C20_Witness ==
    /\ pc = "IntegrityCheck"
    /\ Left("ArtifactCheck")
    /\ pushed["ArtifactCheck"] = 2
    /\ results.success
    /\ results.info = << >>

\* The steps of createProject other than the installation, in order.
StepsWithoutInstall ==
    << "prompt", "ensureDir", "copyTemplateFiles", "generateConfigFiles", "initializeGit" >>

IsPrefix(a, b) == Len(a) <= Len(b) /\ SubSeq(b, 1, Len(a)) = a

C19_ExistingDirectoryRejected ==
    (creation # << >> /\ creation.before.exists /\ creation.pc # "Command") =>
        /\ creation.pc \in {"Rejected", "Exited"}
        /\ creation.error = << "Directory ", creation.projectName, " already exists" >>
        /\ creation.steps = << >>
        /\ creation.spawned = << >>
        /\ creation.targetDir = creation.before
        /\ creation.pc = "Exited" =>
              /\ creation.exitCode = << 1 >>
              /\ creation.console[Len(creation.console)] =
                    << "Error creating project: ", "Directory ", creation.projectName,
                       " already exists" >>

C19_Witness ==
    /\ creation # << >>
    /\ creation.pc = "Exited"
    /\ creation.before = [exists |-> TRUE, entries |-> {"notes.txt"}]
    /\ creation.targetDir = creation.before
    /\ creation.exitCode = << 1 >>

\* C17: whenever the output of the addimage command contains "already
\* exists", the script prints the 'image already exists' notice and exits
\* with code 0, whatever the exit code of the addimage command.
C17_AlreadyExistsExitsZero ==
    (script # << >> /\ script.pc = "Exited" /\ script.ran # << >>
        /\ MatchesAlreadyExists(script.ran[1].output)) =>
        /\ script.exitCode = << 0 >>
        /\ \E i \in 1..Len(script.stdout) :
              script.stdout[i] = << "Image already exists on zkWasm hub" >>

\* The publish command has performed the event.
Performed(event) ==
    \E i \in 1..Len(publishing.events) : publishing.events[i] = event

C18_SavedConfigReflectsAnswers ==
    (configuration # << >> /\ configuration.pc = "Exited"
        /\ configuration.exitCode = << 0 >>) =>
        LET saved == configuration.configFile.json
            a == configuration.config[1]
        IN  /\ saved.environment = a.environment
            /\ saved.deployment.environment = a.environment
            /\ saved.deployment.autoCheck = a.autoCheck
            /\ saved.build.outputDir = a.outputDir
            /\ saved.build.optimize = (a.environment = "production")

\* C14: validateProject rejects with 'Project validation failed', and the
\* command then exits with code 1 without the 'Project structure is valid'
\* line, exactly when at least one validation error was recorded; at every
\* point results.success is (errors is empty); warnings alone never cause
\* failure.
C14_FailsIffErrorRecorded ==
    validation # << >> =>
        LET r == validation.results
            printedValid ==
                \E i \in 1..Len(validation.console) :
                    validation.console[i] = << "Project structure is valid!" >>
        IN  /\ r.success <=> r.errors = << >>
            /\ validation.pc = "Exited" =>
                  /\ r.errors # << >> <=>
                        /\ validation.thrown = << "Project validation failed" >>
                        /\ validation.exitCode = << 1 >>
                        /\ ~printedValid
                  /\ r.errors = << >> =>
                        /\ validation.exitCode = << 0 >>
                        /\ printedValid


\* The catalog answered with a list that has a first record.
ListedAnswer(o) ==
    /\ o.fetch = "resolves" /\ ResponseOk(o.status) /\ o.json = "parses"
    /\ ~o.body.isNull
    /\ o.body.result = "array" /\ o.body.images # << >>

\* C21: the first record of the returned list alone decides the catalog
\* verdict. A first record without a checksum (or with an empty one) makes
\* the check append one "Image not found" error and set no
\* info.imageChecksum, whatever the later records carry; a first record
\* with a checksum c makes the check append no error and set
\* info.imageChecksum to the text of c, whatever the later records carry.
C21_FirstRecordDecides ==
    (answer # << >> /\ ListedAnswer(answer[1])) =>
        LET first == answer[1].body.images[1]
        IN  IF first.isNull \/ ~Truthy(first.checksum)
            THEN /\ pushed["CatalogCheck"] = 1
                 /\ Mentions(results.errors[Len(results.errors)], "Image not found: ")
                 /\ ~Has(results.info, "imageChecksum")
            ELSE /\ pushed["CatalogCheck"] = 0
                 /\ Has(results.info, "imageChecksum")
                 /\ results.info["imageChecksum"] = String(first.checksum)

C21_Witness ==
    /\ pc = "Exited"
    /\ answer # << >>
    /\ ListedAnswer(answer[1])
    /\ Len(answer[1].body.images) = 2
    /\ answer[1].body.images[1] = [isNull |-> FALSE, checksum |-> JsString(<< >>)]
    /\ Truthy(answer[1].body.images[2].checksum)
    /\ pushed["CatalogCheck"] = 1
    /\ ~Has(results.info, "imageChecksum")


\* C23: the number of passed checks the summary reports lies in 0..3 and is
\* the number of the three checks that appended no error.
C23_PassedIsCheckCount ==
    summary # << >> =>
        /\ summary.totalPassed \in 0..TotalChecks
        /\ summary.totalPassed = Cardinality({c \in Checks : pushed[c] = 0})

\* C24: in every state of a run, info.imageChecksum is set exactly when
\* info.imageHash is, and when they are set info.imageHash is info.md5Hash,
\* one network request was made in the run and the catalog check appended
\* no error.
C24_ImageFieldsTogether ==
    /\ Has(results.info, "imageChecksum") <=> Has(results.info, "imageHash")
    /\ Has(results.info, "imageHash") =>
          /\ Has(results.info, "md5Hash")
          /\ results.info["imageHash"] = results.info["md5Hash"]
          /\ Len(requests) = 1
          /\ pushed["CatalogCheck"] = 0

C24_Witness ==
    /\ pc = "Exited"
    /\ Has(results.info, "imageChecksum")
    /\ Has(results.info, "imageHash")
    /\ results.info["imageHash"] = results.info["md5Hash"]
    /\ Len(requests) = 1
    /\ run = 2


EventsOf(what) == SelectSeq(creation.events, LAMBDA e : e[1] = what)

\* The settlements of the promise that wraps the child `what`.
SettledOf(what) == SelectSeq(creation.settled, LAMBDA e : e[1] = what)

InstallChildren == {"npm install", "TypeScript compilation"}

\* The child could not be spawned or closed with a code other than 0.
EndedBadly(event) == event.on = "error" \/ event.code # JsNumber(0)

\* C26: when npm install or the TypeScript compilation that follows it ends
\* with a spawn error or a non-zero (or null) exit code, createProject
\* rejects and the command exits with 1; no later step is performed (no
\* TypeScript compilation after a failed install, no git initialisation, no
\* success message); and the child's promise is settled once, also when
\* 'close' follows 'error' for the same child.
C26_FailedInstallRejectsOnce ==
    creation # << >> =>
        \A what \in InstallChildren :
            /\ Len(SettledOf(what)) = (IF EventsOf(what) = << >> THEN 0 ELSE 1)
            /\ (EventsOf(what) # << >> /\ EndedBadly(EventsOf(what)[1][2])) =>
                  /\ SettledOf(what) = << << what, "reject" >> >>
                  /\ creation.pc \in {"Rejected", "Exited"}
                  /\ creation.error # << >>
                  /\ creation.pc = "Exited" => creation.exitCode = << 1 >>
                  /\ what = "npm install" =>
                        << "npx", "tsc" >> \notin Range(creation.spawned)
                  /\ << "git", "init" >> \notin Range(creation.spawned)
                  /\ "initializeGit" \notin Range(creation.steps)
                  /\ << "\nProject ", creation.projectName, " created successfully!" >>
                        \notin Range(creation.console)
                  /\ << "Project ", creation.projectName, " created successfully!" >>
                        \notin Range(creation.console)

C26_Witness ==
    /\ creation # << >>
    /\ creation.pc = "Rejected"
    /\ Len(EventsOf("npm install")) = 2
    /\ EventsOf("npm install")[1][2].on = "error"
    /\ EventsOf("npm install")[2][2] =
          [on |-> "close", code |-> JsNumber(0), message |-> << >>]
    /\ creation.settled = << << "npm install", "reject" >> >>
    /\ creation.error = << "Failed to run ", "npm install", ": ", "spawn ENOENT" >>

\* C27: whatever the git child does (closes with any code, or cannot be
\* spawned), initializeGit resolves, createProject prints its closing lines
\* and the command reports success and ends with exit code 0.
C27_GitNeverFailsCreation ==
    (creation # << >> /\ EventsOf("git init") # << >>) =>
        /\ SettledOf("git init") = << << "git init", "resolve" >> >>
        /\ creation.error = << >>
        /\ creation.pc \in {"Resolved", "Exited"}
        /\ << "\nProject ", creation.projectName, " created successfully!" >>
              \in Range(creation.console)
        /\ creation.pc = "Exited" =>
              /\ creation.exitCode = << 0 >>
              /\ << "Project ", creation.projectName, " created successfully!" >>
                    \in Range(creation.console)

C27_Witness ==
    /\ creation # << >>
    /\ creation.pc = "Exited"
    /\ EventsOf("git init") # << >>
    /\ EventsOf("git init")[1][2].on = "error"
    /\ << "Git not available, skipping repository initialization" >>
          \in Range(creation.console)
    /\ creation.exitCode = << 0 >>


\* C28: when the publish script the CLI started closes with a non-zero exit
\* code, the CLI process ends with a non-zero exit code, whether the script
\* was the existing one ('run') or the one just generated ('run now').
C28_ScriptFailurePropagates ==
    (/\ publishing # << >>
     /\ publishing.pc = "Exited"
     /\ publishing.child # << >>
     /\ publishing.child[1].on = "close"
     /\ publishing.child[1].code.t = "number"
     /\ publishing.child[1].code.n # 0) =>
        publishing.exitCode # << 0 >>


\* initConfig has settled: configureProject wrote the file or threw, or an
\* earlier step threw.
InitSettled(c) == c.pc \in {"Scripts", "Resolved", "Rejected", "Exited"}

\* The calls initConfig made are checkEnvironment, setupEnvironment exactly
\* when a tool was found missing, and then configureProject; a user who
\* declined the automatic installation had no install command spawned.
SetupThenConfigure(c) ==
    /\ c.steps = (IF c.missing = << >>
                  THEN << "checkEnvironment", "configureProject" >>
                  ELSE << "checkEnvironment", "setupEnvironment", "configureProject" >>)
    /\ c.missing # << >> <=> c.found # Range(tools)
    /\ c.shouldSetup = << FALSE >> => c.spawned = << >>

\* configureProject wrote ./zkwasm.config.json.
ConfigWritten(c) ==
    /\ c.configFile.exists
    /\ c.configFile.valid
    /\ "updatedAt" \in DOMAIN c.configFile.json
    /\ c.configFile.json.updatedAt = "now"
    /\ << "Configuration saved to ", "./zkwasm.config.json" >> \in Range(c.console)

\* C22 as stated: initConfig runs the tool setup exactly when a tool is
\* missing and always goes on to configureProject, which writes the config
\* file, also when the user declines the automatic installation (no
\* install command is spawned then) and when a tool installation fails.
C22_SetupThenConfigWritten ==
    (configuration # << >> /\ InitSettled(configuration)) =>
        /\ SetupThenConfigure(configuration)
        /\ ConfigWritten(configuration)

\* C22, amended: as above, but the config file is written only if the
\* ./zkwasm.config.json found, if any, could be read as JSON; when it could
\* not, configureProject throws after its prompt, the file is left as it
\* was and the command ends with exit code 1.
C22_SetupThenConfigure ==
    (configuration # << >> /\ InitSettled(configuration)) =>
        /\ SetupThenConfigure(configuration)
        /\ IF configuration.before.exists /\ ~configuration.before.valid
           THEN /\ configuration.configFile = configuration.before
                /\ configuration.error # << >>
                /\ configuration.pc = "Exited" => configuration.exitCode = << 1 >>
           ELSE ConfigWritten(configuration)

C22_Witness ==
    /\ configuration # << >>
    /\ configuration.pc = "Exited"
    /\ configuration.missing = << "rust", "wasm-opt" >>
    /\ configuration.shouldSetup = << TRUE >>
    /\ Len(configuration.spawned) = 1
    /\ << "Failed to install ", "rust", ": ", "Command failed with code ", "1" >>
          \in Range(configuration.console)
    /\ ConfigWritten(configuration)
    /\ configuration.exitCode = << 0 >>


\* C29: the build command prints its success line only when `make build`
\* closed with exit code 0; in every other case the CLI ends with a
\* non-zero exit code, the child's code or 1 when that code is null; and
\* the one command it spawns is `make build`, with or without --release.
C29_BuildReportsMake ==
    building # << >> =>
        /\ << "Build completed successfully!" >> \in Range(building.console) =>
              building.child = << [on |-> "close", code |-> JsNumber(0),
                                   message |-> << >>] >>
        /\ (building.child # << >> /\ building.child[1].code # JsNumber(0)) =>
              /\ building.pc = "Exited"
              /\ building.exitCode # << 0 >>
              /\ building.child[1].on = "close" =>
                    building.exitCode =
                       << IF building.child[1].code.t = "number"
                          THEN building.child[1].code.n ELSE 1 >>
        /\ building.pc # "Command" =>
              building.spawned = << << "make", "build" >> >>

C29_Witness ==
    /\ building # << >>
    /\ building.pc = "Exited"
    /\ building.options.release
    /\ building.child = << [on |-> "close", code |-> JsNull, message |-> << >>] >>
    /\ building.spawned = << << "make", "build" >> >>
    /\ building.exitCode = << 1 >>

====
